---- MODULE Spec2Model ----
(***************************************************************************)
(* Model of the envvar library (aatuh/envvar): the struct binder           *)
(* (binders.bindWithOptions), its conversion primitives, the rule          *)
(* validator, the text expansion it calls, the getters and the             *)
(* observability hook.                                                     *)
(*                                                                         *)
(* A text is a sequence of one-character strings, so that splitting,       *)
(* trimming, parsing and expansion are computed the way the Go code        *)
(* computes them.  The process environment is a function whose domain is   *)
(* the set of variables that are currently set.                            *)
(***************************************************************************)
EXTENDS Integers, Sequences, FiniteSets, TLC

VARIABLES env, dst, last, scn, hook, lazy, thr, fs, loader

\* The lazy accessors and the goroutines that call them.
lazyVars == <<lazy, thr>>

\* The files the loader can read, and loadOnceGuard with loadErr.
loadVars == <<fs, loader>>

vars == <<env, dst, last, scn, hook, lazyVars, loadVars>>

-----------------------------------------------------------------------------
(* Bounds of the model. *)

\* Iterations of the expandWithLookup loop that are followed before the
\* expansion is classified as not terminating.
ExpandFuel == 4

\* min=A,max=B rules are generated for A, B in -1 .. MaxRuleBound.
MaxRuleBound == 2

\* Calls of a lazy accessor each goroutine makes.
MaxCalls == 2

\* The longest text SplitAndTrim is applied to
MaxSplitLen == 5
MaxRaceEnvs == 3

-----------------------------------------------------------------------------
(* Package strings. *)

Digits == <<"0", "1", "2", "3", "4", "5", "6", "7", "8", "9">>

UpperLetters ==
  <<"A", "B", "C", "D", "E", "F", "G", "H", "I", "J", "K", "L", "M",
    "N", "O", "P", "Q", "R", "S", "T", "U", "V", "W", "X", "Y", "Z">>

LowerLetters ==
  <<"a", "b", "c", "d", "e", "f", "g", "h", "i", "j", "k", "l", "m",
    "n", "o", "p", "q", "r", "s", "t", "u", "v", "w", "x", "y", "z">>

WhiteSpace == {" ", "\t", "\n", "\r"}

Range(s) == {s[i] : i \in 1..Len(s)}

isDigit(c) == c \in Range(Digits)

DigitVal(c) == (CHOOSE i \in 1..10 : Digits[i] = c) - 1

\* s[i:] with a 1-based i
From(s, i) == SubSeq(s, i, Len(s))

\* strings.Index(s, sub), 1-based; 0 when sub does not occur in s
Index(s, sub) ==
  LET hits == {i \in 1..(Len(s) - Len(sub) + 1) :
                 SubSeq(s, i, i + Len(sub) - 1) = sub}
  IN IF hits = {} THEN 0
     ELSE CHOOSE i \in hits : \A j \in hits : i <= j

\* strings.Cut(s, sep)
Cut(s, sep) ==
  LET i == Index(s, sep)
  IN IF i = 0 THEN [before |-> s, after |-> <<>>, found |-> FALSE]
     ELSE [before |-> SubSeq(s, 1, i - 1),
           after |-> From(s, i + Len(sep)), found |-> TRUE]

\* strings.Split(s, sep) for a non-empty sep
RECURSIVE Split(_, _)
Split(s, sep) ==
  LET i == Index(s, sep)
  IN IF i = 0 THEN <<s>>
     ELSE <<SubSeq(s, 1, i - 1)>> \o Split(From(s, i + Len(sep)), sep)

\* strings.TrimSpace(s)
TrimSpace(s) ==
  LET keep == {i \in 1..Len(s) : s[i] \notin WhiteSpace}
  IN IF keep = {} THEN <<>>
     ELSE LET lo == CHOOSE i \in keep : \A j \in keep : i <= j
              hi == CHOOSE i \in keep : \A j \in keep : i >= j
          IN SubSeq(s, lo, hi)

lowerChar(c) ==
  IF c \in Range(UpperLetters)
  THEN LowerLetters[CHOOSE k \in 1..26 : UpperLetters[k] = c]
  ELSE c

\* strings.ToLower(s)
RECURSIVE ToLower(_)
ToLower(s) ==
  IF s = <<>> THEN <<>> ELSE <<lowerChar(s[1])>> \o ToLower(Tail(s))

upperChar(c) ==
  IF c \in Range(LowerLetters)
  THEN UpperLetters[CHOOSE k \in 1..26 : LowerLetters[k] = c]
  ELSE c

\* strings.ToUpper(s)
RECURSIVE ToUpper(_)
ToUpper(s) ==
  IF s = <<>> THEN <<>> ELSE <<upperChar(s[1])>> \o ToUpper(Tail(s))

\* strings.Contains(s, sub)
Contains(s, sub) == Index(s, sub) # 0

\* strings.HasPrefix(s, prefix)
HasPrefix(s, prefix) ==
  Len(s) >= Len(prefix) /\ SubSeq(s, 1, Len(prefix)) = prefix

\* strings.HasSuffix(s, suffix)
HasSuffix(s, suffix) ==
  Len(s) >= Len(suffix)
    /\ SubSeq(s, Len(s) - Len(suffix) + 1, Len(s)) = suffix

-----------------------------------------------------------------------------
(* Package strconv, time. *)

RECURSIVE Pow2(_)
Pow2(n) == IF n = 0 THEN 1 ELSE 2 * Pow2(n - 1)

\* Value of a non-empty sequence of decimal digits.
RECURSIVE DecVal(_)
DecVal(ds) ==
  IF ds = <<>> THEN 0
  ELSE 10 * DecVal(SubSeq(ds, 1, Len(ds) - 1)) + DigitVal(ds[Len(ds)])

AllDigits(s) == s # <<>> /\ \A i \in 1..Len(s) : isDigit(s[i])

\* Texts of the model hold at most 8 digits, so a 32 or 64 bit parse
\* never leaves its range; narrower widths are range-checked.
InIntRange(n, bits) ==
  bits >= 32 \/ (n >= -Pow2(bits - 1) /\ n <= Pow2(bits - 1) - 1)

InUintRange(n, bits) == bits >= 32 \/ n <= Pow2(bits) - 1

\* strconv.ParseInt(s, 10, bits)
ParseInt(s, bits) ==
  LET signed == s # <<>> /\ s[1] \in {"+", "-"}
      body == IF signed THEN Tail(s) ELSE s
      n == IF signed /\ s[1] = "-" THEN -DecVal(body) ELSE DecVal(body)
  IN IF AllDigits(body) /\ InIntRange(n, bits)
     THEN [ok |-> TRUE, val |-> n]
     ELSE [ok |-> FALSE, val |-> 0]

\* strconv.ParseUint(s, 10, bits)
ParseUint(s, bits) ==
  IF AllDigits(s) /\ InUintRange(DecVal(s), bits)
  THEN [ok |-> TRUE, val |-> DecVal(s)]
  ELSE [ok |-> FALSE, val |-> 0]

\* strconv.ParseFloat(s, bits) for decimal texts: a float is held in
\* thousandths, and the texts of the model carry at most three fraction
\* digits and no exponent, "inf" or "nan".
ParseFloat(s, bits) ==
  LET signed == s # <<>> /\ s[1] \in {"+", "-"}
      body == IF signed THEN Tail(s) ELSE s
      dot == Index(body, <<".">>)
      ip == IF dot = 0 THEN body ELSE SubSeq(body, 1, dot - 1)
      fp == IF dot = 0 THEN <<>> ELSE From(body, dot + 1)
      digits(x) == \A i \in 1..Len(x) : isDigit(x[i])
      thousandths == SubSeq(fp \o <<"0", "0", "0">>, 1, 3)
      n == 1000 * DecVal(ip) + DecVal(thousandths)
  IN IF (ip # <<>> \/ fp # <<>>) /\ digits(ip) /\ digits(fp) /\ Len(fp) <= 3
     THEN [ok |-> TRUE, val |-> IF signed /\ s[1] = "-" THEN -n ELSE n]
     ELSE [ok |-> FALSE, val |-> 0]

\* strconv.Atoi(s)
Atoi(s) == ParseInt(s, 64)

\* strconv.FormatInt(n, 10), the %d verb
RECURSIVE FormatNat(_)
FormatNat(n) ==
  IF n < 10 THEN <<Digits[n + 1]>>
  ELSE FormatNat(n \div 10) \o <<Digits[(n % 10) + 1]>>

FormatInt(n) == IF n < 0 THEN <<"-">> \o FormatNat(-n) ELSE FormatNat(n)

\* A time.Duration is held in milliseconds; the units of the model are
\* ms, s, m and h, and texts carry no fraction.
unitMap(u) ==
  CASE u = <<"m", "s">> -> 1
    [] u = <<"s">> -> 1000
    [] u = <<"m">> -> 60000
    [] u = <<"h">> -> 3600000
    [] OTHER -> 0

\* Length of the longest prefix of s whose characters all satisfy digit
\* (want = TRUE) or all do not (want = FALSE).
RECURSIVE SpanLen(_, _)
SpanLen(s, want) ==
  IF s = <<>> \/ isDigit(s[1]) # want THEN 0
  ELSE 1 + SpanLen(Tail(s), want)

\* The loop of time.ParseDuration over ([0-9]+[a-z]+)+
RECURSIVE durationTerms(_)
durationTerms(s) ==
  IF s = <<>> THEN [ok |-> TRUE, val |-> 0]
  ELSE LET nd == SpanLen(s, TRUE)
           rest == From(s, nd + 1)
           nu == SpanLen(rest, FALSE)
           unit == unitMap(SubSeq(rest, 1, nu))
           more == durationTerms(From(rest, nu + 1))
       IN IF nd = 0 \/ nu = 0 \/ unit = 0 \/ ~more.ok
          THEN [ok |-> FALSE, val |-> 0]
          ELSE [ok |-> TRUE,
                val |-> DecVal(SubSeq(s, 1, nd)) * unit + more.val]

\* time.ParseDuration(s)
ParseDuration(s) ==
  LET signed == s # <<>> /\ s[1] \in {"+", "-"}
      body == IF signed THEN Tail(s) ELSE s
      t == durationTerms(body)
  IN IF body = <<"0">> THEN [ok |-> TRUE, val |-> 0]
     ELSE IF body = <<>> \/ ~t.ok THEN [ok |-> FALSE, val |-> 0]
     ELSE [ok |-> TRUE,
           val |-> IF signed /\ s[1] = "-" THEN -t.val ELSE t.val]

\* time.Duration.String(), the %s verb, for whole milliseconds
FormatDuration(d) ==
  LET a == IF d < 0 THEN -d ELSE d
      sign == IF d < 0 THEN <<"-">> ELSE <<>>
      h == a \div 3600000
      m == (a % 3600000) \div 60000
      ms == a % 60000
      sec == IF ms % 1000 = 0 THEN FormatNat(ms \div 1000)
             ELSE FormatNat(ms \div 1000) \o <<".">> \o
                  (IF ms % 1000 < 10 THEN <<"0", "0">>
                   ELSE IF ms % 1000 < 100 THEN <<"0">> ELSE <<>>) \o
                  (IF ms % 10 # 0 THEN FormatNat(ms % 1000)
                   ELSE IF ms % 100 # 0 THEN FormatNat((ms % 1000) \div 10)
                   ELSE FormatNat((ms % 1000) \div 100))
  IN IF a = 0 THEN <<"0", "s">>
     ELSE IF a < 1000 THEN sign \o FormatNat(a) \o <<"m", "s">>
     ELSE sign \o (IF h > 0 THEN FormatNat(h) \o <<"h">> ELSE <<>>)
               \o (IF h > 0 \/ m > 0 THEN FormatNat(m) \o <<"m">> ELSE <<>>)
               \o sec \o <<"s">>

-----------------------------------------------------------------------------
(* Package os: the process environment and os.ExpandEnv. *)

\* os.LookupEnv(key)
LookupEnv(e, key) ==
  IF key \in DOMAIN e THEN [val |-> e[key], ok |-> TRUE]
  ELSE [val |-> <<>>, ok |-> FALSE]

\* os.Getenv(key)
Getenv(e, key) == LookupEnv(e, key).val

isShellSpecialVar(c) ==
  c \in {"*", "#", "$", "@", "!", "?", "-"} \/ isDigit(c)

isAlphaNum(c) ==
  c = "_" \/ isDigit(c) \/ c \in Range(LowerLetters)
    \/ c \in Range(UpperLetters)

RECURSIVE alphaNumLen(_)
alphaNumLen(s) ==
  IF s = <<>> \/ ~isAlphaNum(s[1]) THEN 0 ELSE 1 + alphaNumLen(Tail(s))

\* os.getShellName(s) for a non-empty s: the name and the width consumed
getShellName(s) ==
  IF s[1] = "{"
  THEN IF Len(s) > 2 /\ isShellSpecialVar(s[2]) /\ s[3] = "}"
       THEN [name |-> <<s[2]>>, w |-> 3]
       ELSE LET i == Index(s, <<"}">>)
            IN IF i = 0 THEN [name |-> <<>>, w |-> 1]
               ELSE IF i = 2 THEN [name |-> <<>>, w |-> 2]
               ELSE [name |-> SubSeq(s, 2, i - 1), w |-> i]
  ELSE IF isShellSpecialVar(s[1]) THEN [name |-> <<s[1]>>, w |-> 1]
  ELSE [name |-> SubSeq(s, 1, alphaNumLen(s)), w |-> alphaNumLen(s)]

\* A '$' that no name follows is dropped.
bareDollar_eaten == <<>>

\* os.Expand: "$ was not followed by a name.  Leave the dollar character
\* untouched."
bareDollar == <<"$">>

\* os.ExpandEnv(s): one left-to-right pass, the substituted text is not
\* scanned again
RECURSIVE ExpandEnv(_, _)
ExpandEnv(e, s) ==
  LET hits == {j \in 1..(Len(s) - 1) : s[j] = "$"}
  IN IF hits = {} THEN s
     ELSE LET j == CHOOSE x \in hits : \A y \in hits : x <= y
              sn == getShellName(From(s, j + 1))
              repl == IF sn.name = <<>> /\ sn.w > 0 THEN <<>>
                      ELSE IF sn.name = <<>> THEN bareDollar
                      ELSE Getenv(e, sn.name)
          IN SubSeq(s, 1, j - 1) \o repl
               \o ExpandEnv(e, From(s, j + 1 + sn.w))

-----------------------------------------------------------------------------
(* Package expand. *)

\* The default is used although the variable is set.
replacement_defaultFirst(name, def, hasDef, look) ==
  IF name = <<>> THEN <<>>
  ELSE IF hasDef THEN def
  ELSE IF look.ok THEN look.val
  ELSE <<>>

\* The text the segment ${name} or ${name:-def} is replaced by in one
\* iteration of the loop of expandWithLookup; look is look(name).
replacement(name, def, hasDef, look) ==
  IF name = <<>> THEN <<>>
  ELSE IF look.ok THEN look.val
  ELSE IF hasDef THEN def
  ELSE <<>>

\* expandWithLookup(s, os.LookupEnv).  The loop rescans the text from its
\* start after every substitution, so it need not terminate; done = FALSE
\* is the outcome of a loop still running after fuel substitutions.
RECURSIVE expandWithLookup(_, _, _)
expandWithLookup(e, s, fuel) ==
  LET i == Index(s, <<"$", "{">>)
      j == IF i = 0 THEN 0
           ELSE LET r == Index(From(s, i), <<"}">>)
                IN IF r = 0 THEN 0 ELSE r + i - 1
  IN IF i = 0 \/ j = 0 THEN [done |-> TRUE, s |-> s]
     ELSE IF fuel = 0 THEN [done |-> FALSE, s |-> s]
     ELSE LET c == Cut(SubSeq(s, i + 2, j - 1), <<":", "-">>)
              mid == replacement(c.before, c.after, c.found,
                                 LookupEnv(e, c.before))
          IN expandWithLookup(e,
               SubSeq(s, 1, i - 1) \o mid \o From(s, j + 1), fuel - 1)

\* expand.Expand(s)
Expand(e, s) ==
  LET r == expandWithLookup(e, s, ExpandFuel)
  IN IF r.done THEN [done |-> TRUE, s |-> ExpandEnv(e, r.s)]
     ELSE r

\* for iter := 0; iter < 10; iter++
maxIter == 10

\* The lookup ExpandMap passes to expandWithLookup: the map itself first,
\* then the process environment.
mapLookup(out, e) ==
  [k \in DOMAIN out \cup DOMAIN e |->
     IF k \in DOMAIN out THEN out[k] ELSE e[k]]

\* One pass of ExpandMap over the keys of out in the given order: stable
\* tells whether no value changed, done = FALSE that an expansion did not
\* terminate.
RECURSIVE expandMapPass(_, _, _, _)
expandMapPass(e, out, order, stable) ==
  IF order = <<>> THEN [done |-> TRUE, m |-> out, stable |-> stable]
  ELSE LET k == order[1]
           nv == expandWithLookup(mapLookup(out, e), out[k], ExpandFuel)
       IN IF ~nv.done THEN [done |-> FALSE, m |-> out, stable |-> FALSE]
          ELSE IF nv.s # out[k]
          THEN expandMapPass(e, [out EXCEPT ![k] = nv.s], Tail(order), FALSE)
          ELSE expandMapPass(e, out, Tail(order), stable)

\* The orders in which range may visit the keys of the map.
rangeOrders(m) ==
  {o \in [1..Cardinality(DOMAIN m) -> DOMAIN m] :
     \A i, j \in DOMAIN o : i # j => o[i] # o[j]}

\* iter < 10
iterationsLeft(iter) == iter < maxIter

\* The loop of ExpandMap from iteration iter on: the set of its outcomes.
RECURSIVE expandMapLoop(_, _, _)
expandMapLoop(e, out, iter) ==
  IF ~iterationsLeft(iter) THEN {[done |-> TRUE, m |-> out]}
  ELSE UNION {
         LET p == expandMapPass(e, out, o, TRUE)
         IN IF ~p.done THEN {[done |-> FALSE, m |-> p.m]}
            ELSE IF p.stable THEN {[done |-> TRUE, m |-> p.m]}
            ELSE expandMapLoop(e, p.m, iter + 1) :
         o \in rangeOrders(out)}

\* ExpandMap(in): done = FALSE when the call does not return
ExpandMap(e, in) ==
  IF DOMAIN in = {} THEN {[done |-> TRUE, m |-> in]}
  ELSE expandMapLoop(e, in, 0)

-----------------------------------------------------------------------------
(* Package reflect: field types and values.                                *)
(*                                                                         *)
(* A value of kind int, uint or time.Duration is an integer, a string is a *)
(* text, a []string is [nil, elems], a pointer is [nil, elem] and a        *)
(* url.URL is [scheme, rest].                                              *)

IntT(bits) == [Kind |-> "int", Bits |-> bits, PkgPath |-> "", Name |-> "int"]
UintT(bits) ==
  [Kind |-> "uint", Bits |-> bits, PkgPath |-> "", Name |-> "uint"]
FloatT(bits) ==
  [Kind |-> "float", Bits |-> bits, PkgPath |-> "", Name |-> "float"]
StringT == [Kind |-> "string", Bits |-> 0, PkgPath |-> "", Name |-> "string"]
BoolT == [Kind |-> "bool", Bits |-> 0, PkgPath |-> "", Name |-> "bool"]
DurationT ==
  [Kind |-> "int", Bits |-> 64, PkgPath |-> "time", Name |-> "Duration"]
URLT == [Kind |-> "struct", Bits |-> 0, PkgPath |-> "net/url", Name |-> "URL"]
SliceT(elem) ==
  [Kind |-> "slice", Bits |-> 0, PkgPath |-> "", Name |-> "", Elem |-> elem]
PtrT(elem) ==
  [Kind |-> "ptr", Bits |-> 0, PkgPath |-> "", Name |-> "", Elem |-> elem]

MapT(elem) ==
  [Kind |-> "map", Bits |-> 0, PkgPath |-> "", Name |-> "", Elem |-> elem]

\* reflect.Zero(t)
RECURSIVE Zero(_)
Zero(t) ==
  CASE t.Kind \in {"int", "uint", "float"} -> 0
    [] t.Kind = "string" -> <<>>
    [] t.Kind = "bool" -> FALSE
    [] t.Kind \in {"slice", "map"} -> [nil |-> TRUE, elems |-> <<>>]
    [] t.Kind = "ptr" -> [nil |-> TRUE, elem |-> Zero(t.Elem)]
    [] t.Kind = "struct" -> [scheme |-> <<>>, rest |-> <<>>]

\* f.Tag.Lookup(key) and f.Tag.Get(key)
TagLookup(f, key) == key \in DOMAIN f.Tag
TagGet(f, key) == IF key \in DOMAIN f.Tag THEN f.Tag[key] ELSE <<>>

-----------------------------------------------------------------------------
(* Package binders: conversion. *)

required == <<"r", "e", "q", "u", "i", "r", "e", "d">>

\* ParseBoolValue(v)
ParseBoolValue(v) ==
  LET s == TrimSpace(ToLower(v))
  IN IF s \in {<<"1">>, <<"t">>, <<"t", "r", "u", "e">>, <<"y">>,
               <<"y", "e", "s">>, <<"o", "n">>}
     THEN [ok |-> TRUE, val |-> TRUE]
     ELSE IF s \in {<<"0">>, <<"f">>, <<"f", "a", "l", "s", "e">>, <<"n">>,
                    <<"n", "o">>, <<"o", "f", "f">>}
     THEN [ok |-> TRUE, val |-> FALSE]
     ELSE [ok |-> FALSE, val |-> FALSE]

\* Empty parts are kept.
keepPart_all(p) == TRUE

\* if p != "" { out = append(out, p) }
keepPart(p) == p # <<>>

\* The loop of SplitAndTrim over the split parts
RECURSIVE trimParts(_)
trimParts(parts) ==
  IF parts = <<>> THEN <<>>
  ELSE LET p == TrimSpace(parts[1])
       IN (IF keepPart(p) THEN <<p>> ELSE <<>>) \o trimParts(Tail(parts))

\* SplitAndTrim(s, sep)
SplitAndTrim(s, sep) == trimParts(Split(s, sep))

\* parseEnvTag(tag)
parseEnvTag(tag) ==
  LET i == Index(tag, <<",">>)
      parts == IF i = 0 THEN <<>> ELSE Split(From(tag, i + 1), <<",">>)
  IN [name |-> TrimSpace(IF i = 0 THEN tag ELSE SubSeq(tag, 1, i - 1)),
      required |-> \E k \in 1..Len(parts) : TrimSpace(parts[k]) = required]

\* missingErr(key)
missingErr(key) == [key |-> key, kind |-> "missing", msg |-> "missing",
                    arg |-> <<>>]

\* fmt.Errorf("envvar: %s: %w", name, err)
wrapErr(name, kind, e) ==
  [key |-> name, kind |-> kind, msg |-> e.msg, arg |-> e.arg]

\* The scheme scan of url.Parse (getScheme): the text before the first ':'
\* when it is a letter followed by letters, digits, '+', '-' or '.'.
getScheme(raw) ==
  LET i == Index(raw, <<":">>)
      okAt(k) == lowerChar(raw[k]) \in Range(LowerLetters)
                   \/ (k > 1 /\ (isDigit(raw[k]) \/ raw[k] \in {"+", "-", "."}))
  IN IF i = 0 THEN [ok |-> TRUE, scheme |-> <<>>, rest |-> raw]
     ELSE IF i = 1 THEN [ok |-> FALSE, scheme |-> <<>>, rest |-> raw]
     ELSE IF \A k \in 1..(i - 1) : okAt(k)
     THEN [ok |-> TRUE, scheme |-> ToLower(SubSeq(raw, 1, i - 1)),
           rest |-> From(raw, i + 1)]
     ELSE [ok |-> TRUE, scheme |-> <<>>, rest |-> raw]

\* A URL without a scheme is accepted.
invalidURL_parseOnly(u) == ~u.ok

\* if err != nil || u.Scheme == ""
invalidURL(u) == ~u.ok \/ u.scheme = <<>>

\* The kind of a JSON scalar: a string without escapes, a number without
\* sign, fraction or exponent, or null.
jsonScalar(p) ==
  IF Len(p) >= 2 /\ p[1] = "\"" /\ p[Len(p)] = "\""
       /\ \A k \in 2..(Len(p) - 1) : p[k] # "\""
  THEN "string"
  ELSE IF AllDigits(p) /\ (Len(p) = 1 \/ p[1] # "0") THEN "number"
  ELSE IF p = <<"n", "u", "l", "l">> THEN "null"
  ELSE "invalid"

\* The elements of a JSON array of scalars, <<<<>>>> standing for a text
\* that is no array; the strings of the model hold no comma.
jsonArray(s) ==
  IF Len(s) >= 2 /\ s[1] = "[" /\ s[Len(s)] = "]"
  THEN LET inner == TrimSpace(SubSeq(s, 2, Len(s) - 1))
       IN IF inner = <<>> THEN <<>>
          ELSE [k \in 1..Len(Split(inner, <<",">>)) |->
                  TrimSpace(Split(inner, <<",">>)[k])]
  ELSE <<<<>>>>

\* checkValid of encoding/json for a scalar or an array of scalars
jsonValid(s) ==
  \/ jsonScalar(s) # "invalid"
  \/ /\ jsonArray(s) # <<<<>>>>
     /\ \A k \in 1..Len(jsonArray(s)) : jsonScalar(jsonArray(s)[k]) # "invalid"

\* json.Unmarshal([]byte(raw), &tmp) for tmp of type []string: val is what
\* tmp holds afterwards.  A text that is not valid JSON is rejected before
\* anything is decoded; an element that is no string is left "" and the
\* decoding goes on, the error being returned at the end.
jsonUnmarshal(raw, t) ==
  LET s == TrimSpace(raw)
      a == jsonArray(s)
      elemOf(p) == IF jsonScalar(p) = "string"
                   THEN SubSeq(p, 2, Len(p) - 1) ELSE <<>>
      tmp == [nil |-> FALSE, elems |-> [k \in 1..Len(a) |-> elemOf(a[k])]]
  IN IF ~jsonValid(s) THEN [ok |-> FALSE, val |-> Zero(t)]
     ELSE IF jsonScalar(s) = "null" THEN [ok |-> TRUE, val |-> Zero(t)]
     ELSE IF jsonScalar(s) # "invalid" THEN [ok |-> FALSE, val |-> Zero(t)]
     ELSE [ok |-> \A k \in 1..Len(a) : jsonScalar(a[k]) \in {"string", "null"},
           val |-> tmp]

okVal(v) == [ok |-> TRUE, val |-> v, msg |-> "", arg |-> <<>>]
errVal(t, m, a) == [ok |-> FALSE, val |-> Zero(t), msg |-> m, arg |-> a]

\* A failed conversion whose temporary holds tmp when it returns.
errWith(t, m, a, tmp) == [errVal(t, m, a) EXCEPT !.val = tmp]

\* setFieldJSON(v, raw): on failure val is the value that was allocated
\* and decoded into, which is not stored.
setFieldJSON(t, raw) ==
  IF t.Kind = "ptr"
  THEN LET j == jsonUnmarshal(raw, t.Elem)
       IN IF ~j.ok
          THEN errWith(t, "invalid json: %v", raw,
                       [nil |-> FALSE, elem |-> j.val])
          ELSE okVal([nil |-> FALSE, elem |-> j.val])
  ELSE LET j == jsonUnmarshal(raw, t)
       IN IF ~j.ok THEN errWith(t, "invalid json: %v", raw, j.val)
          ELSE okVal(j.val)

\* setField(v, raw, sep, false): ok tells whether the field is assigned,
\* val is the value assigned, or on failure the value of the temporary
\* that was allocated for it
RECURSIVE setField(_, _, _)
setField(t, raw, sep) ==
  CASE t.Kind = "ptr" ->
         IF t.Elem.PkgPath = "net/url" /\ t.Elem.Name = "URL"
         THEN LET u == getScheme(raw)
              IN IF invalidURL(u)
                 THEN errVal(t, "invalid url: %s", raw)
                 ELSE okVal([nil |-> FALSE,
                             elem |-> [scheme |-> u.scheme, rest |-> u.rest]])
         ELSE LET r == setField(t.Elem, raw, sep)
              IN IF ~r.ok
                 THEN errWith(t, r.msg, r.arg,
                              [nil |-> FALSE, elem |-> Zero(t.Elem)])
                 ELSE okVal([nil |-> FALSE, elem |-> r.val])
    [] t.Kind = "string" -> okVal(raw)
    [] t.Kind = "bool" ->
         LET b == ParseBoolValue(raw)
         IN IF ~b.ok THEN errVal(t, "invalid boolean: %s", raw)
            ELSE okVal(b.val)
    [] t.Kind = "int" ->
         IF t.PkgPath = "time" /\ t.Name = "Duration"
         THEN LET d == ParseDuration(raw)
              IN IF ~d.ok THEN errVal(t, "invalid duration: %s", raw)
                 ELSE okVal(d.val)
         ELSE LET i == ParseInt(raw, t.Bits)
              IN IF ~i.ok THEN errVal(t, "invalid int: %s", raw)
                 ELSE okVal(i.val)
    [] t.Kind = "uint" ->
         LET u == ParseUint(raw, t.Bits)
         IN IF ~u.ok THEN errVal(t, "invalid uint: %s", raw)
            ELSE okVal(u.val)
    [] t.Kind = "float" ->
         LET x == ParseFloat(raw, t.Bits)
         IN IF ~x.ok THEN errVal(t, "invalid float: %s", raw)
            ELSE okVal(x.val)
    [] t.Kind = "slice" ->
         IF t.Elem.Kind # "string"
         THEN errVal(t, "only []string slices supported", <<>>)
         ELSE okVal([nil |-> FALSE, elems |-> SplitAndTrim(raw, sep)])
    [] t.Kind = "struct" ->
         IF t.PkgPath = "net/url" /\ t.Name = "URL"
         THEN errVal(t, "use *url.URL in struct, not url.URL", <<>>)
         ELSE errVal(t, "unsupported struct type %s", <<>>)
    [] OTHER -> errVal(t, "unsupported kind %s", <<>>)

\* setField(v, raw, sep, jsonMode)
setFieldIn(t, raw, sep, jsonMode) ==
  IF jsonMode THEN setFieldJSON(t, raw) ELSE setField(t, raw, sep)

-----------------------------------------------------------------------------
(* Package validate. *)

kMin == <<"m", "i", "n">>
kMax == <<"m", "a", "x">>
kOneOf == <<"o", "n", "e", "o", "f">>

pass == [ok |-> TRUE, msg |-> "", arg |-> <<>>]
fail(m, a) == [ok |-> FALSE, msg |-> m, arg |-> a]

\* The loop of parseRules: later parts overwrite earlier ones
RECURSIVE rulesOf(_, _)
rulesOf(parts, out) ==
  IF parts = <<>> THEN out
  ELSE LET c == Cut(TrimSpace(parts[1]), <<"=">>)
           k == TrimSpace(c.before)
       IN rulesOf(Tail(parts),
            IF TrimSpace(parts[1]) # <<>> /\ c.found
            THEN [x \in DOMAIN out \cup {k} |->
                    IF x = k THEN TrimSpace(c.after) ELSE out[x]]
            ELSE out)

\* parseRules(tag): a map from rule key to rule value
parseRules(tag) == rulesOf(Split(tag, <<",">>), [x \in {} |-> <<>>])

isDuration(t) == t.PkgPath = "time" /\ t.Name = "Duration"

\* The bound itself is rejected.
belowMin_inclusive(v, min) == v <= min

\* if v.Int() < min, if time.Duration(v.Int()) < d
belowMin(v, min) == v < min

\* if v.Int() > max, if time.Duration(v.Int()) > d
aboveMax(v, max) == v > max

\* checkMin(v, s)
checkMin(v, t, s) ==
  IF isDuration(t)
  THEN LET d == ParseDuration(s)
       IN IF ~d.ok THEN fail("time: invalid duration", s)
          ELSE IF belowMin(v, d.val)
          THEN fail("duration < %s", FormatDuration(d.val))
          ELSE pass
  ELSE CASE t.Kind = "int" ->
              LET m == ParseInt(s, 64)
              IN IF ~m.ok THEN fail("strconv.ParseInt", s)
                 ELSE IF belowMin(v, m.val)
                 THEN fail("must be >= %d", FormatInt(m.val))
                 ELSE pass
         [] t.Kind = "uint" ->
              LET m == ParseUint(s, 64)
              IN IF ~m.ok THEN fail("strconv.ParseUint", s)
                 ELSE IF belowMin(v, m.val)
                 THEN fail("must be >= %d", FormatInt(m.val))
                 ELSE pass
         [] t.Kind = "string" ->
              LET m == Atoi(s)
              IN IF ~m.ok THEN fail("strconv.Atoi", s)
                 ELSE IF Len(v) < m.val
                 THEN fail("length must be >= %d", FormatInt(m.val))
                 ELSE pass
         [] OTHER -> pass

\* checkMax(v, s)
checkMax(v, t, s) ==
  IF isDuration(t)
  THEN LET d == ParseDuration(s)
       IN IF ~d.ok THEN fail("time: invalid duration", s)
          ELSE IF aboveMax(v, d.val)
          THEN fail("duration > %s", FormatDuration(d.val))
          ELSE pass
  ELSE CASE t.Kind = "int" ->
              LET m == ParseInt(s, 64)
              IN IF ~m.ok THEN fail("strconv.ParseInt", s)
                 ELSE IF aboveMax(v, m.val)
                 THEN fail("must be <= %d", FormatInt(m.val))
                 ELSE pass
         [] t.Kind = "uint" ->
              LET m == ParseUint(s, 64)
              IN IF ~m.ok THEN fail("strconv.ParseUint", s)
                 ELSE IF aboveMax(v, m.val)
                 THEN fail("must be <= %d", FormatInt(m.val))
                 ELSE pass
         [] t.Kind = "string" ->
              LET m == Atoi(s)
              IN IF ~m.ok THEN fail("strconv.Atoi", s)
                 ELSE IF Len(v) > m.val
                 THEN fail("length must be <= %d", FormatInt(m.val))
                 ELSE pass
         [] OTHER -> pass

\* The allowed set is split on the separator of the field.
allowedSet_envsep(vals, sep) == Split(vals, sep)

\* allowed := strings.Split(vals, "|")
allowedSet(vals, sep) == Split(vals, <<"|">>)

\* checkOneOf(v, vals, sep): the allowed set is split on '|', sep is unused
checkOneOf(v, t, vals, sep) ==
  LET allowed == allowedSet(vals, sep)
      isAllowed(x) == \E a \in 1..Len(allowed) : allowed[a] = x
  IN CASE t.Kind = "string" ->
            IF isAllowed(v) THEN pass ELSE fail("must be one of %v", vals)
       [] t.Kind = "slice" ->
            IF t.Elem.Kind # "string"
            THEN fail("oneof on string fields only", <<>>)
            ELSE LET bad == {i \in 1..Len(v.elems) : ~isAllowed(v.elems[i])}
                 IN IF bad = {} THEN pass
                    ELSE fail("value %q not in %v",
                              v.elems[CHOOSE i \in bad : \A j \in bad : i <= j])
       [] OTHER -> fail("oneof supports string or []string", <<>>)

\* The result of one rule of ValidateField's switch
checkRule(v, t, k, val, sep) ==
  CASE k = kMin -> checkMin(v, t, val)
    [] k = kMax -> checkMax(v, t, val)
    [] k = kOneOf -> checkOneOf(v, t, val, sep)
    [] OTHER -> pass

\* ValidateField(v, tag, sep): the set of results it can return.  The
\* rules are visited in the iteration order of a Go map, which is not
\* specified, and the first failing rule visited is returned.
ValidateField(v, t, tag, sep) ==
  LET rules == parseRules(tag)
      failing == {r \in {checkRule(v, t, k, rules[k], sep) :
                           k \in DOMAIN rules} : ~r.ok}
  IN IF failing = {} THEN {pass} ELSE failing

-----------------------------------------------------------------------------
(* Package types: the observability hook.  A hook is "nil" or the          *)
(* registered implementation "h"; a callback that ran is recorded as the   *)
(* arguments it was called with.                                           *)

\* CallOnGet(key, ok, err, d): the callbacks it invokes
CallOnGet(h, key, ok) ==
  IF h # "nil" THEN <<[cb |-> "OnGet", key |-> key, ok |-> ok]>> ELSE <<>>

\* CallOnLoad(source, keys): the callbacks it invokes
CallOnLoad(h, source, keys) ==
  IF h # "nil" THEN <<[cb |-> "OnLoad", key |-> source, ok |-> keys]>>
  ELSE <<>>

-----------------------------------------------------------------------------
(* Package getters. *)

\* expand(s): the same two passes as expand.Expand
expand(e, s) == Expand(e, s)

\* GetRaw(key): ret is "hang" when the expansion does not terminate, and
\* then no value is returned and the hook is not reached.
GetRaw(e, h, key) ==
  LET got(look, x) ==
        IF ~x.done
        THEN [ret |-> "hang", val |-> <<>>, ok |-> FALSE, seen |-> <<>>]
        ELSE [ret |-> "nil", val |-> x.s, ok |-> look.ok,
              seen |-> CallOnGet(h, key, look.ok)]
      expanded(look) ==
        got(look, IF look.ok THEN expand(e, look.val)
                  ELSE [done |-> TRUE, s |-> look.val])
  IN expanded(LookupEnv(e, key))

\* Get(key)
Get(e, h, key) == GetRaw(e, h, key)

\* MustGet(key): panics when the variable is not set
MustGet(e, h, key) ==
  LET must(g) ==
        IF g.ret = "nil" /\ ~g.ok THEN [g EXCEPT !.ret = "panic"] ELSE g
  IN must(Get(e, h, key))

\* strings.TrimSpace(v) in the typed getters
trimmed(v) == TrimSpace(v)

\* GetInt(key)
GetInt(e, h, key) ==
  LET parsed(g, i) ==
        IF ~g.ok \/ ~i.ok THEN [g EXCEPT !.ret = "error", !.val = 0]
        ELSE [g EXCEPT !.val = i.val]
      conv(g) ==
        IF g.ret = "hang" THEN [g EXCEPT !.val = 0]
        ELSE parsed(g, ParseInt(trimmed(g.val), 64))
  IN conv(Get(e, h, key))

\* The end of a typed getter: p is the conversion of the trimmed text and
\* zero the value returned with an error.
typed(g, p, zero) ==
  IF g.ret = "hang" THEN [g EXCEPT !.val = zero]
  ELSE IF ~g.ok \/ ~p.ok THEN [g EXCEPT !.ret = "error", !.val = zero]
  ELSE [g EXCEPT !.val = p.val]

\* GetUint64(key)
GetUint64(e, h, key) ==
  LET conv(g) == typed(g, ParseUint(trimmed(g.val), 64), 0)
  IN conv(Get(e, h, key))

\* GetFloat64(key)
GetFloat64(e, h, key) ==
  LET conv(g) == typed(g, ParseFloat(trimmed(g.val), 64), 0)
  IN conv(Get(e, h, key))

\* GetDuration(key)
GetDuration(e, h, key) ==
  LET conv(g) == typed(g, ParseDuration(trimmed(g.val)), 0)
  IN conv(Get(e, h, key))

\* GetBool(key), parseBool(key)
GetBool(e, h, key) ==
  LET conv(g) == typed(g, ParseBoolValue(g.val), FALSE)
  IN conv(Get(e, h, key))

\* GetURL(key)
GetURL(e, h, key) ==
  LET parsed(u) ==
        [ok |-> ~invalidURL(u),
         val |-> [nil |-> FALSE,
                  elem |-> [scheme |-> u.scheme, rest |-> u.rest]]]
      conv(g) == typed(g, parsed(getScheme(trimmed(g.val))),
                       [nil |-> TRUE,
                        elem |-> [scheme |-> <<>>, rest |-> <<>>]])
  IN conv(Get(e, h, key))

\* MustGetInt(key): panics when the variable is not set or is no integer
MustGetInt(e, h, key) ==
  LET must(g) == IF g.ret = "error" THEN [g EXCEPT !.ret = "panic"] ELSE g
  IN must(GetInt(e, h, key))

-----------------------------------------------------------------------------
(* Package lazy.  An accessor is the closure returned by LazyString(key)   *)
(* or LazyInt(key) with the onceVal it captured: done and m are the flag   *)
(* and the mutex of its sync.Once, val is o.val.  runs counts the          *)
(* executions of the function passed to once.Do and rets collects the      *)
(* values the accessor has returned; panicked tells whether an execution   *)
(* of that function has panicked.                                          *)

\* var o onceVal[T]
onceVal(kind, key) ==
  [kind |-> kind, key |-> key, done |-> FALSE, m |-> "free",
   val |-> IF kind = "LazyInt" THEN 0 ELSE <<>>, runs |-> 0, rets |-> {},
   panicked |-> FALSE]

\* getters.MustGet(key), getters.MustGetInt(key): what once.Do runs
resolve(kind, e, h, key) ==
  IF kind = "LazyInt" THEN MustGetInt(e, h, key) ELSE MustGet(e, h, key)

\* The mutex of the Once is not taken.
canLock_always(m) == TRUE

\* o.m.Lock() in Once.doSlow: waits until the mutex is free
canLock(m) == m = "free"

\* The accessor resolves the key again on every call.
returned_fresh(val, fresh) == fresh

\* return o.val
returned(val, fresh) == val

NoAccessors == [a \in {} |-> onceVal("LazyString", <<>>)]
NoThreads == [t \in {} |-> [pc |-> "idle"]]

-----------------------------------------------------------------------------
(* Package envvar: the redacted dump. *)

mask == <<"*", "*", "*">>

\* The key is compared as it is written.
isSecretKey_caseSensitive(k) ==
  \/ Contains(k, <<"S", "E", "C", "R", "E", "T">>)
  \/ Contains(k, <<"T", "O", "K", "E", "N">>)
  \/ Contains(k, <<"P", "A", "S", "S", "W", "O", "R", "D">>)
  \/ HasSuffix(k, <<"_", "K", "E", "Y">>)

\* The condition of DumpRedacted on upper := strings.ToUpper(k)
isSecretKey(k) ==
  LET upper == ToUpper(k)
  IN \/ Contains(upper, <<"S", "E", "C", "R", "E", "T">>)
     \/ Contains(upper, <<"T", "O", "K", "E", "N">>)
     \/ Contains(upper, <<"P", "A", "S", "S", "W", "O", "R", "D">>)
     \/ HasSuffix(upper, <<"_", "K", "E", "Y">>)

\* DumpRedacted(): os.Environ() holds one "k=v" for every variable set
DumpRedacted(e) ==
  [k \in DOMAIN e |-> IF isSecretKey(k) THEN mask ELSE e[k]]

-----------------------------------------------------------------------------
(* Package loaders.  A file is the sequence of its lines; fs maps the      *)
(* paths that exist to [dir, lines].                                       *)

NoFiles == [p \in {} |-> [dir |-> FALSE, lines |-> <<>>]]

\* var loadOnceGuard sync.Once; var loadErr error.  reads counts the files
\* read and applied holds the paths whose variables were set.
NotLoaded == [done |-> FALSE, err |-> "nil", reads |-> 0, applied |-> <<>>]

defaultPaths == <<".env", "/env/.env">>

\* The loop of ReadFile over the lines from line i on; m is the map so far
RECURSIVE readLines(_, _, _)
readLines(lines, i, m) ==
  IF i > Len(lines) THEN [ok |-> TRUE, m |-> m, ln |-> 0]
  ELSE LET line == TrimSpace(lines[i])
           c == Cut(line, <<"=">>)
           k == TrimSpace(c.before)
       IN IF line = <<>> \/ HasPrefix(line, <<"#">>)
          THEN readLines(lines, i + 1, m)
          ELSE IF ~c.found
          THEN [ok |-> FALSE, m |-> [x \in {} |-> <<>>], ln |-> i]
          ELSE readLines(lines, i + 1,
                 [x \in DOMAIN m \cup {k} |->
                    IF x = k THEN TrimSpace(c.after) ELSE m[x]])

\* ReadFile(path) for a file that can be opened
ReadFile(lines) == readLines(lines, 1, [x \in {} |-> <<>>])

\* os.Setenv(k, v) fails for an empty key
setenvFails(k) == k = <<>>

\* A variable that is set keeps its value.
SetEnvVars_keepExisting(e, m) ==
  {[k \in DOMAIN e \cup DOMAIN m |-> IF k \in DOMAIN e THEN e[k] ELSE m[k]]}

\* SetEnvVars(m): the environments it can leave.  The map is walked in an
\* order that is not specified and the walk ends at the first key
\* os.Setenv rejects, so every set of accepted keys can have been set
\* before a rejected one is met.
SetEnvVars(e, m) ==
  LET good == {k \in DOMAIN m : ~setenvFails(k)}
      apply(ks) ==
        [k \in DOMAIN e \cup ks |-> IF k \in ks THEN m[k] ELSE e[k]]
  IN IF good = DOMAIN m THEN {apply(good)}
     ELSE {apply(ks) : ks \in SUBSET good}

\* The first path of the list that os.Stat finds and that is no
\* directory, as an index into paths; 0 when there is none.
firstFile(files, paths) ==
  LET ok == {i \in 1..Len(paths) :
               paths[i] \in DOMAIN files /\ ~files[paths[i]].dir}
  IN IF ok = {} THEN 0 ELSE CHOOSE i \in ok : \A j \in ok : i <= j

\* A call whose guard is consumed loads again.
guardOpen_always(ld) == TRUE

\* loadOnceGuard.Do(...): the function runs on the first call only
guardOpen(ld) == ~ld.done

\* The variables read before the bad line are set.
onReadError_partial(e, lines, ln) ==
  SetEnvVars(e, ReadFile(SubSeq(lines, 1, ln - 1)).m)

\* if err != nil { loadErr = err; return }: nothing is set
onReadError(e, lines, ln) == {e}

\* Only the call that ran the function returns its error.
loadReturn_ofThisCall(ld, ran) == IF ran THEN ld.err ELSE "nil"

\* return loadErr
loadReturn(ld, ran) == ld.err

\* LoadOnce(paths): the set of its possible outcomes
LoadOnce(e, h, ld, files, paths) ==
  LET ps == IF Len(paths) = 0 THEN defaultPaths ELSE paths
      i == firstFile(files, ps)
      r == ReadFile(files[ps[i]].lines)
      out(e2, ld2, seen) ==
        [env |-> e2, loader |-> ld2, ret |-> loadReturn(ld2, guardOpen(ld)),
         seen |-> seen]
  IN IF ~guardOpen(ld) THEN {out(e, ld, <<>>)}
     ELSE IF i = 0 THEN {out(e, [ld EXCEPT !.done = TRUE], <<>>)}
     ELSE IF ~r.ok
     THEN {out(e2, [ld EXCEPT !.done = TRUE, !.err = "invalid line",
                              !.reads = ld.reads + 1], <<>>) :
             e2 \in onReadError(e, files[ps[i]].lines, r.ln)}
     ELSE {out(e2, [ld EXCEPT !.done = TRUE, !.reads = ld.reads + 1,
                              !.applied = Append(ld.applied, ps[i])],
               CallOnLoad(h, ps[i], Cardinality(DOMAIN r.m))) :
             e2 \in SetEnvVars(e, r.m)}

-----------------------------------------------------------------------------
(* Package binders: the field walk. *)

\* The binder resolves its keys through the getters.
lookupHooks_viaGetRaw(h, key, ok) == CallOnGet(h, key, ok)

\* lookupPrefixed reads the environment with os.LookupEnv: no callback
lookupHooks(h, key, ok) == <<>>

\* The callbacks invoked while the fields of steps were resolved
RECURSIVE bindSeen(_, _)
bindSeen(h, steps) ==
  IF steps = <<>> THEN <<>>
  ELSE lookupHooks(h, steps[1].key, steps[1].src = "env")
         \o bindSeen(h, Tail(steps))

\* The plain key is tried before the prefixed one.
lookupPrefixed_plainFirst(e, prefix, name) ==
  IF LookupEnv(e, name).ok THEN LookupEnv(e, name)
  ELSE IF prefix # <<>> THEN LookupEnv(e, prefix \o name)
  ELSE LookupEnv(e, name)

\* lookupPrefixed(prefix, name)
lookupPrefixed(e, prefix, name) ==
  IF prefix # <<>> /\ LookupEnv(e, prefix \o name).ok
  THEN LookupEnv(e, prefix \o name)
  ELSE LookupEnv(e, name)

\* The default replaces the variable whether or not it is set.
useDefault_always(exists, def) == def # <<>>

\* if !exists && def != "": the default replaces a variable that is not set
useDefault(exists, def) == ~exists /\ def # <<>>

\* An absent required field is skipped without a failure.
isMissing_never(exists, req) == FALSE

\* if !exists && req: a Missing failure
isMissing(exists, req) == ~exists /\ req

\* A skipped field is reset to its zero value.
skippedValue_zero(old, t) == Zero(t)

\* if !exists { continue }: the value of a field that is skipped
skippedValue(old, t) == old

\* The walk returns at the first failure.
afterFailure_return == "return"

\* The continue after a failure is recorded: the walk goes on with the
\* next field.
afterFailure == "continue"

\* A rejected value is rolled back.
afterValidationFailure_undo(old, new) == old

\* The value of a field whose validation failed: setField has assigned it
\* and nothing is undone.
afterValidationFailure(old, new) == new

\* A new failure replaces the ones collected before it.
appendErrs_overwrite(errs, new) == IF new = <<>> THEN errs ELSE new

\* errs = append(errs, err)
appendErrs(errs, new) == errs \o new

\* A single failure is returned bare.
bindReturn_bare(errs) ==
  IF Len(errs) = 0 THEN "nil"
  ELSE IF Len(errs) = 1 THEN "error" ELSE "MultiError"

\* if len(errs) > 0 { return errs }; return nil
bindReturn(errs) == IF Len(errs) > 0 THEN "MultiError" ELSE "nil"

\* setField stores the temporary it built before it returns the error.
afterConversionFailure_stored(old, tmp) == tmp

\* setField returns the error before v.Set: the field keeps its value.
afterConversionFailure(old, tmp) == old

\* Only a text from the environment is expanded.
expandRaw_envOnly(e, raw, src) ==
  IF src = "env" THEN Expand(e, raw) ELSE [done |-> TRUE, s |-> raw]

\* raw = expand.Expand(raw), for a text from the environment or from envdef
expandRaw(e, raw, src) == Expand(e, raw)

stepOf(f, outcome, raw, src) ==
  [field |-> f.Name, key |-> parseEnvTag(f.Tag.env).name,
   outcome |-> outcome, raw |-> raw, src |-> src]

\* One iteration of the loop of bindWithOptions for a tagged, exported
\* field f whose current value is old, from the return of lookupPrefixed
\* (lk) on: the set of its possible results.  next tells how the loop goes
\* on: "continue" with the next field, or "hang" when the expansion of the
\* raw text does not terminate.  step records what the iteration did: the
\* text it resolved (raw), where the text came from (src) and how the
\* iteration ended (outcome).
bindResolved(e, f, old, lk) ==
  LET tag == parseEnvTag(f.Tag.env)
      def == TagGet(f, "envdef")
      sep == IF TagGet(f, "envsep") = <<>> THEN <<",">>
             ELSE TagGet(f, "envsep")
      useDef == useDefault(lk.ok, def)
      raw == IF useDef THEN def ELSE lk.val
      exists == lk.ok \/ useDef
      src == IF useDef THEN "default" ELSE IF lk.ok THEN "env" ELSE "none"
      x == expandRaw(e, raw, src)
      jsonMode == ToLower(TagGet(f, "envjson")) = <<"t", "r", "u", "e">>
      r == setFieldIn(f.Type, x.s, sep, jsonMode)
      result(val, errs, outcome, next) ==
        [val |-> val, errs |-> errs, next |-> next,
         step |-> stepOf(f, outcome, raw, src)]
  IN IF isMissing(exists, tag.required)
     THEN {result(old, <<missingErr(tag.name)>>, "missing", afterFailure)}
     ELSE IF ~exists
     THEN {result(skippedValue(old, f.Type), <<>>, "absent", "continue")}
     ELSE IF ~x.done THEN {result(old, <<>>, "hang", "hang")}
     ELSE IF ~r.ok
     THEN {result(afterConversionFailure(old, r.val),
                  <<wrapErr(tag.name, "convert", r)>>, "converr",
                  afterFailure)}
     ELSE IF TagLookup(f, "validate") /\ f.Tag.validate # <<>>
     THEN {IF v.ok THEN result(r.val, <<>>, "ok", "continue")
           ELSE result(afterValidationFailure(old, r.val),
                       <<wrapErr(tag.name, "validate", v)>>,
                       "valerr", "continue") :
             v \in ValidateField(r.val, f.Type, f.Tag.validate, sep)}
     ELSE {result(r.val, <<>>, "ok", "continue")}

\* One iteration of the loop of bindWithOptions in one environment
bindField(e, prefix, f, old) ==
  bindResolved(e, f, old,
               lookupPrefixed(e, prefix, parseEnvTag(f.Tag.env).name))

\* The loop of bindWithOptions from field i on; acc holds the destination,
\* the errors collected and the fields visited so far.
RECURSIVE bindLoop(_, _, _, _, _)
bindLoop(e, prefix, rt, i, acc) ==
  IF i > Len(rt) THEN {acc}
  ELSE IF rt[i].PkgPath # "" \/ ~TagLookup(rt[i], "env")
  THEN bindLoop(e, prefix, rt, i + 1, acc)
  ELSE UNION {
         LET nacc == [dst |-> [acc.dst EXCEPT ![rt[i].Name] = o.val],
                      errs |-> appendErrs(acc.errs, o.errs),
                      steps |-> Append(acc.steps, o.step),
                      next |-> o.next]
         IN IF o.next = "continue"
            THEN bindLoop(e, prefix, rt, i + 1, nacc)
            ELSE {nacc} :
         o \in bindField(e, prefix, rt[i], acc.dst[rt[i].Name])}

\* bindWithOptions(dst, prefix) for an argument of the given kind: the set
\* of its possible outcomes.  ret is "error" for the plain error of the
\* pointer check, "MultiError", "nil", or "hang" when the call does not
\* return.
bindWithOptions(e, arg, d, rt, prefix) ==
  IF arg # "pointer to struct"
  THEN {[dst |-> d, errs |-> <<>>, steps |-> <<>>, ret |-> "error"]}
  ELSE {[dst |-> a.dst, errs |-> a.errs, steps |-> a.steps,
         ret |-> IF a.next = "hang" THEN "hang" ELSE bindReturn(a.errs)] :
          a \in bindLoop(e, prefix, rt, 1,
                  [dst |-> d, errs |-> <<>>, steps |-> <<>>,
                   next |-> "continue"])}

-----------------------------------------------------------------------------
(* Destination struct types and the environments they are bound from.      *)
(* Each scenario is a struct declaration taken from the tests of the       *)
(* repository, with the keys and the texts the environment ranges over.    *)

PORT == <<"P", "O", "R", "T">>
MODE == <<"M", "O", "D", "E">>
HOST == <<"H", "O", "S", "T">>
LIM == <<"L", "I", "M">>
TAGS == <<"T", "A", "G", "S">>
TIMEOUT == <<"T", "I", "M", "E", "O", "U", "T">>
RAW == <<"R", "A", "W">>
NKEY == <<"N">>
FLAG == <<"F", "L", "A", "G">>
EV_A == <<"E", "V", "_", "A">>
EV_B == <<"E", "V", "_", "B">>
EV_X == <<"E", "V", "_", "X">>
KV1 == <<"K", "V", "1">>
KV2 == <<"K", "V", "2">>
MY_SECRET == <<"M", "Y", "_", "S", "E", "C", "R", "E", "T">>
API_KEY == <<"A", "P", "I", "_", "K", "E", "Y">>
jwt_token == <<"j", "w", "t", "_", "t", "o", "k", "e", "n">>
MONKEY == <<"M", "O", "N", "K", "E", "Y">>
PASSWORD == <<"P", "A", "S", "S", "W", "O", "R", "D">>
MYAPP == <<"M", "Y", "A", "P", "P", "_">>
URL_DIRECT == <<"U", "R", "L", "_", "D", "I", "R", "E", "C", "T">>

Req(key) == key \o <<",">> \o required

Ref(key) == <<"$", "{">> \o key \o <<"}">>

\* ${key:-def}
RefOr(key, def) == <<"$", "{">> \o key \o <<":", "-">> \o def \o <<"}">>

field(name, type, tag) ==
  [Name |-> name, PkgPath |-> "", Type |-> type, Tag |-> tag]

\* An unexported field has a non-empty PkgPath.
unexported(name, type, tag) ==
  [Name |-> name, PkgPath |-> "main", Type |-> type, Tag |-> tag]

noTag == [x \in {} |-> <<>>]

jsonTrue == <<"t", "r", "u", "e">>

\* ["a"], ["a",1] and the unterminated ["a"
jsonOpen == <<"[", "\"", "a", "\"">>
jsonA == jsonOpen \o <<"]">>
jsonA1 == jsonOpen \o <<",", "1", "]">>

oneofABC == kOneOf \o <<"=", "a", "|", "b", "|", "c">>

\* validate:"min=A,max=B"
minMaxTag(a, b) ==
  kMin \o <<"=">> \o FormatInt(a) \o <<",">> \o kMax \o <<"=">> \o FormatInt(b)

RuleBounds == (-1)..MaxRuleBound

ScenarioNames ==
  {"Agg", "Prefix", "Default", "Duration", "OneOf", "OneOfList", "Expand",
   "Kinds"}

Scenarios ==
  {[name |-> n, a |-> 0, b |-> 0] : n \in ScenarioNames}
    \cup {[name |-> "Range", a |-> a, b |-> b] : a, b \in RuleBounds}

\* The struct type of a scenario: its fields in declaration order.
StructType(sc) ==
  CASE sc.name = "Agg" ->
         <<field("Port", IntT(64),
                 [env |-> Req(PORT), validate |-> minMaxTag(1, 3)]),
           field("Note", StringT, noTag),
           field("Mode", StringT,
                 [env |-> Req(MODE),
                  validate |-> kOneOf \o <<"=", "a", "|", "b">>]),
           unexported("hidden", StringT, [env |-> MODE]),
           field("Host", StringT, [env |-> Req(HOST)])>>
    [] sc.name = "Prefix" ->
         <<field("Port", IntT(64), [env |-> PORT]),
           field("Host", StringT, [env |-> Req(HOST)])>>
    [] sc.name = "Default" ->
         <<field("Lim", IntT(8), [env |-> Req(LIM), envdef |-> <<"5">>]),
           field("Mode", StringT,
                 [env |-> MODE, envdef |-> <<"d", "e", "v">>])>>
    [] sc.name = "Duration" ->
         <<field("Timeout", DurationT,
                 [env |-> TIMEOUT, envdef |-> <<"5", "s">>,
                  validate |-> kMin \o <<"=", "1", "s", ",">> \o kMax
                                 \o <<"=", "1", "0", "s">>])>>
    [] sc.name = "OneOf" ->
         <<field("Mode", StringT, [env |-> MODE, validate |-> oneofABC])>>
    [] sc.name = "OneOfList" ->
         <<field("Tags", SliceT(StringT),
                 [env |-> TAGS, validate |-> oneofABC]),
           field("Pipes", SliceT(StringT),
                 [env |-> TAGS, envsep |-> <<"|">>, validate |-> oneofABC])>>
    [] sc.name = "Expand" ->
         <<field("Raw", StringT, [env |-> RAW]),
           field("Port", IntT(64), [env |-> Req(PORT)])>>
    [] sc.name = "Kinds" ->
         <<field("Flag", BoolT,
                 [env |-> FLAG, validate |-> kMin \o <<"=", "1">>]),
           field("Count", PtrT(IntT(64)),
                 [env |-> PORT, validate |-> kMax \o <<"=", "1">>]),
           field("Names", SliceT(StringT),
                 [env |-> PORT, validate |-> kMin \o <<"=", "9">>]),
           field("Port", IntT(64),
                 [env |-> PORT, validate |-> kOneOf \o <<"=", "5">>])>>
    [] sc.name = "Getter" ->
         <<field("Raw", StringT, [env |-> EV_B]),
           field("Note", StringT, noTag),
           unexported("hidden", StringT, [env |-> EV_A])>>
    [] sc.name \in {"LazyString", "LazyInt", "Loader", "Dump", "Split"} ->
         <<>>
    [] sc.name = "Typed" ->
         <<field("I", IntT(64), [env |-> NKEY]),
           field("U", UintT(64), [env |-> NKEY]),
           field("F", FloatT(64), [env |-> NKEY]),
           field("D", DurationT, [env |-> NKEY]),
           field("B", BoolT, [env |-> NKEY]),
           field("P", PtrT(URLT), [env |-> NKEY])>>
    [] sc.name = "Failing" ->
         <<field("I8", IntT(8), [env |-> NKEY]),
           field("U8", UintT(8), [env |-> NKEY]),
           field("F", FloatT(64), [env |-> NKEY]),
           field("D", DurationT, [env |-> NKEY]),
           field("B", BoolT, [env |-> NKEY]),
           field("P", PtrT(URLT), [env |-> NKEY]),
           field("PI", PtrT(IntT(64)), [env |-> NKEY]),
           field("J", SliceT(StringT), [env |-> NKEY, envjson |-> jsonTrue]),
           field("PJ", PtrT(SliceT(StringT)),
                 [env |-> NKEY, envjson |-> jsonTrue]),
           field("M", MapT(IntT(64)), [env |-> NKEY]),
           field("L", SliceT(IntT(64)), [env |-> NKEY])>>
    [] sc.name = "Race" ->
         <<field("Host", StringT, [env |-> Req(HOST)]),
           field("Port", IntT(64), [env |-> PORT])>>
    [] sc.name = "Steps" ->
         <<field("Port", IntT(64),
                 [env |-> PORT, envdef |-> Ref(LIM),
                  validate |-> kMin \o <<"=", "2">>]),
           field("Mode", StringT,
                 [env |-> Req(MODE),
                  validate |-> kOneOf \o <<"=", "a", "|", "b">>])>>
    [] sc.name = "URL" ->
         <<field("U", URLT, [env |-> URL_DIRECT]),
           field("P", PtrT(URLT), [env |-> URL_DIRECT])>>
    [] sc.name = "Range" ->
         <<field("N", IntT(64),
                 [env |-> NKEY, validate |-> minMaxTag(sc.a, sc.b)])>>

\* The variables a scenario sets and unsets.
EnvKeys(sc) ==
  CASE sc.name = "Agg" -> {PORT, MODE, HOST}
    [] sc.name = "Prefix" -> {PORT, MYAPP \o PORT, HOST, MYAPP \o HOST}
    [] sc.name = "Default" -> {LIM, MYAPP \o LIM, MODE}
    [] sc.name = "Duration" -> {TIMEOUT}
    [] sc.name = "OneOf" -> {MODE}
    [] sc.name = "OneOfList" -> {TAGS}
    [] sc.name = "Expand" -> {RAW, PORT}
    [] sc.name = "Kinds" -> {FLAG, PORT}
    [] sc.name = "Getter" -> {EV_A, EV_B}
    [] sc.name \in {"LazyString", "LazyInt"} -> {NKEY}
    [] sc.name = "Loader" -> {KV1, KV2}
    [] sc.name = "Dump" ->
         {PORT, MY_SECRET, API_KEY, jwt_token, MONKEY, PASSWORD}
    [] sc.name \in {"Typed", "Failing"} -> {NKEY}
    [] sc.name = "Race" -> {HOST, MYAPP \o HOST, PORT}
    [] sc.name = "Steps" -> {PORT, LIM, MODE}
    [] sc.name = "URL" -> {URL_DIRECT}
    [] sc.name = "Range" -> {NKEY}

\* The texts a scenario sets its variables to.
EnvTexts(sc) ==
  CASE sc.name = "Agg" -> {<<"2">>, <<"4">>, <<"a">>}
    [] sc.name = "Prefix" -> {<<"1">>, <<"2">>}
    [] sc.name = "Default" -> {<<>>, <<"1">>, <<"9", "9", "9">>}
    [] sc.name = "Duration" ->
         {<<"5", "s">>, <<"5", "0", "0", "m", "s">>, <<"1", "1", "s">>,
          <<"1", "s">>, <<"1", "0", "s">>, <<"5">>, <<"1", "m", "1", "s">>}
    [] sc.name = "OneOf" ->
         {<<"b">>, <<"d">>, <<"B">>, <<"a", "|", "b">>, <<" ", "b">>, <<>>}
    [] sc.name = "OneOfList" ->
         {<<"b">>, <<"d">>, <<"a", ",", " ", "c">>,
          <<"a", ",", "x">>, <<"a", "|", " ", "c">>,
          <<"y", ",", "a", ",", "x">>, <<" ", ",">>}
    [] sc.name = "Expand" -> {<<"1">>, Ref(PORT), Ref(RAW), <<"$">> \o PORT}
    [] sc.name = "Kinds" -> {<<"t", "r", "u", "e">>, <<"5">>}
    [] sc.name = "Getter" ->
         {<<"1">>, Ref(EV_A), Ref(EV_X), RefOr(EV_X, <<"d", "e", "f">>),
          <<"$">> \o EV_A, Ref(EV_B), <<"a", "$", " ", "b">>,
          <<"x">> \o RefOr(EV_A, <<"d">>) \o <<"y">> \o Ref(EV_X)
            \o <<"z">>}
    [] sc.name \in {"LazyString", "LazyInt"} ->
         {<<"1">>, <<"2">>, <<"x">>}
    [] sc.name = "Loader" -> {<<"x">>}
    [] sc.name = "Dump" -> {<<"s">>, mask}
    [] sc.name = "Typed" ->
         {<<"1">>, <<" ", "1">>, <<"2", " ">>, <<"-", "1">>,
          <<"1", ".", "5">>, <<" ", "1", ".", "5">>, <<"2", "s">>,
          <<"2", "s", " ">>, <<"o", "n">>, <<" ", "o", "n">>,
          <<"h", ":", "x">>, <<" ", "h", ":", "x">>, <<"x">>, <<>>}
    [] sc.name = "Failing" ->
         {<<"1">>, <<"3", "0", "0">>, <<"x">>, <<"1", ".", "5">>,
          <<"2", "s">>, <<"h", ":", "x">>, jsonA, jsonA1, jsonOpen}
    [] sc.name = "Race" -> {<<"1">>, <<"2">>}
    [] sc.name = "Steps" -> {<<"1">>, <<"3">>, <<"x">>, Ref(LIM), Ref(MODE)}
    [] sc.name = "URL" ->
         {<<"h", "t", "t", "p", ":", "/", "/", "h">>, <<"H", ":", "x">>, <<"x">>, <<":", "x">>, <<>>,
          <<" ", "h", ":", "x">>, <<"1", "a", ":", "x">>}
    [] sc.name = "Range" ->
         {FormatInt(v) : v \in (-2)..(MaxRuleBound + 1)} \cup {<<"x">>}

\* The texts a scenario sets the variable key to.
KeyTexts(sc, key) ==
  IF sc.name = "Getter" /\ key = EV_A
  THEN {<<"1">>, Ref(EV_B), <<"a", "$", " ", "b">>}
  ELSE IF sc.name = "Race" /\ key = PORT THEN {<<"1">>}
  ELSE IF sc.name = "Steps" /\ key = PORT
  THEN {<<"1">>, <<"3">>, <<"x">>, Ref(LIM)}
  ELSE IF sc.name = "Steps" /\ key = LIM THEN {<<"1">>, <<"3">>}
  ELSE IF sc.name = "Steps" /\ key = MODE THEN {<<"a">>, Ref(MODE)}
  ELSE EnvTexts(sc)

\* The prefixes a scenario binds with.
Prefixes(sc) ==
  IF sc.name \in {"Prefix", "Default", "Race"} THEN {<<>>, MYAPP}
  ELSE {<<>>}

\* The arguments Bind is called with: &c, and what the pointer check of
\* bindWithOptions rejects.
BindArgs == {"pointer to struct", "nil pointer", "struct value",
             "pointer to int"}

\* var c C
ZeroStruct(rt) ==
  [n \in {rt[i].Name : i \in 1..Len(rt)} |->
     Zero(rt[CHOOSE i \in 1..Len(rt) : rt[i].Name = n].Type)]

-----------------------------------------------------------------------------
(* The program: a test sets and unsets variables and binds its struct.     *)
(* last is the most recent call and what it returned; old is the           *)
(* destination before that call.                                           *)

call(op, arg, prefix, ret, errs, steps, old) ==
  [op |-> op, arg |-> arg, prefix |-> prefix, ret |-> ret, errs |-> errs,
   steps |-> steps, old |-> old, val |-> <<>>, ok |-> FALSE, seen |-> <<>>]

Init ==
  /\ scn \in Scenarios
  /\ env = [k \in {} |-> <<>>]
  /\ dst = ZeroStruct(StructType(scn))
  /\ last = call("none", "", <<>>, "nil", <<>>, <<>>, dst)
  /\ hook = "nil"
  /\ lazy = NoAccessors
  /\ thr = NoThreads
  /\ fs = NoFiles
  /\ loader = NotLoaded

\* A call that did not return blocks the program.
Running == last.ret # "hang"

\* os.Setenv(key, value)
Setenv ==
  /\ Running
  /\ \E key \in EnvKeys(scn) :
       \E value \in KeyTexts(scn, key) :
         env' = [k \in DOMAIN env \cup {key} |->
                   IF k = key THEN value ELSE env[k]]
  /\ last' = call("Setenv", "", <<>>, "nil", <<>>, <<>>, dst)
  /\ UNCHANGED <<dst, scn, hook, lazyVars, loadVars>>

\* os.Unsetenv(key)
Unsetenv ==
  /\ Running
  /\ \E key \in DOMAIN env : env' = [k \in DOMAIN env \ {key} |-> env[k]]
  /\ last' = call("Unsetenv", "", <<>>, "nil", <<>>, <<>>, dst)
  /\ UNCHANGED <<dst, scn, hook, lazyVars, loadVars>>

bindCall(arg, prefix) ==
  \E out \in bindWithOptions(env, arg, dst, StructType(scn), prefix) :
    /\ dst' = out.dst
    /\ last' = [call("Bind", arg, prefix, out.ret, out.errs, out.steps,
                      dst)
                   EXCEPT !.seen = bindSeen(hook, out.steps)]
    /\ UNCHANGED <<env, scn, hook, lazyVars, loadVars>>

\* Bind(dst)
Bind ==
  /\ Running
  /\ \E arg \in BindArgs : bindCall(arg, <<>>)

\* BindWithPrefix(dst, prefix)
BindWithPrefix ==
  /\ Running
  /\ \E arg \in BindArgs, prefix \in Prefixes(scn) : bindCall(arg, prefix)

Next == Setenv \/ Unsetenv \/ Bind \/ BindWithPrefix

Spec == Init /\ [][Next]_vars

-----------------------------------------------------------------------------
(* The program of the getters: a test that sets and unsets EV_A and EV_B,  *)
(* installs a hook, reads the variables, expands texts and binds a struct  *)
(* whose untagged and unexported fields it has filled in.                  *)

GetScenarios == {[name |-> "Getter", a |-> 0, b |-> 0]}

InitGet ==
  /\ scn \in GetScenarios
  /\ env = [k \in {} |-> <<>>]
  /\ dst = [ZeroStruct(StructType(scn)) EXCEPT !.Note = <<"n">>,
                                               !.hidden = <<"h">>]
  /\ last = call("none", "", <<>>, "nil", <<>>, <<>>, dst)
  /\ hook = "nil"
  /\ lazy = NoAccessors
  /\ thr = NoThreads
  /\ fs = NoFiles
  /\ loader = NotLoaded

\* SetHook(h)
SetHook ==
  /\ Running
  /\ \E h \in {"nil", "h"} : hook' = h
  /\ last' = call("SetHook", "", <<>>, "nil", <<>>, <<>>, dst)
  /\ UNCHANGED <<env, dst, scn, lazyVars, loadVars>>

getCall(op, key, g) ==
  [call(op, key, <<>>, g.ret, <<>>, <<>>, dst)
     EXCEPT !.val = g.val, !.ok = g.ok, !.seen = g.seen]

\* envvar.Get(key)
GetKey ==
  /\ Running
  /\ \E key \in EnvKeys(scn) : last' = getCall("Get", key, Get(env, hook, key))
  /\ UNCHANGED <<env, dst, scn, hook, lazyVars, loadVars>>

\* envvar.MustGet(key)
MustGetKey ==
  /\ Running
  /\ \E key \in EnvKeys(scn) :
       last' = getCall("MustGet", key, MustGet(env, hook, key))
  /\ UNCHANGED <<env, dst, scn, hook, lazyVars, loadVars>>

\* expand.Expand(s)
ExpandText ==
  /\ Running
  /\ \E s \in EnvTexts(scn) :
       LET x == Expand(env, s)
       IN last' = getCall("Expand", s,
                    [ret |-> IF x.done THEN "nil" ELSE "hang",
                     val |-> IF x.done THEN x.s ELSE <<>>,
                     ok |-> x.done, seen |-> <<>>])
  /\ UNCHANGED <<env, dst, scn, hook, lazyVars, loadVars>>

NextGet ==
  Setenv \/ Unsetenv \/ SetHook \/ GetKey \/ MustGetKey \/ ExpandText \/ Bind

SpecGet == InitGet /\ [][NextGet]_vars

-----------------------------------------------------------------------------
(* The program of the expansions: a test that sets and unsets EV_A and     *)
(* EV_B, reads them, expands texts and expands maps whose values refer to  *)
(* the keys of the map and to the variables.  For ExpandMap arg is the map *)
(* passed and val the map returned.                                        *)

\* The maps ExpandMap is called with.
MapInputs ==
  UNION {[ks -> {<<"1">>, Ref(EV_A), Ref(EV_B),
                 <<"x">> \o RefOr(EV_X, <<"d">>)}] :
           ks \in SUBSET {EV_A, EV_X}}

\* expand.ExpandMap(in)
ExpandMapCall ==
  /\ Running
  /\ \E in \in MapInputs :
       \E x \in ExpandMap(env, in) :
         last' = [call("ExpandMap", in, <<>>,
                       IF x.done THEN "nil" ELSE "hang", <<>>, <<>>, dst)
                    EXCEPT !.val = x.m, !.ok = x.done]
  /\ UNCHANGED <<env, dst, scn, hook, lazyVars, loadVars>>

NextMap ==
  Setenv \/ Unsetenv \/ GetKey \/ ExpandText \/ ExpandMapCall

SpecMap == InitGet /\ [][NextMap]_vars

-----------------------------------------------------------------------------
(* The program of the typed getters: it sets and unsets one variable,      *)
(* reads it with each typed getter, and binds a struct with one field of   *)
(* each of the corresponding types to the same key ("Typed"), or a struct  *)
(* with one field for each way a conversion can fail ("Failing").          *)

TypedScenarios ==
  {[name |-> n, a |-> 0, b |-> 0] : n \in {"Typed", "Failing"}}

InitTyped ==
  /\ scn \in TypedScenarios
  /\ env = [k \in {} |-> <<>>]
  /\ dst = ZeroStruct(StructType(scn))
  /\ last = call("none", "", <<>>, "nil", <<>>, <<>>, dst)
  /\ hook = "nil"
  /\ lazy = NoAccessors
  /\ thr = NoThreads
  /\ fs = NoFiles
  /\ loader = NotLoaded

\* The typed getter named op applied to key
typedGetter(op, e, h, key) ==
  CASE op = "GetInt" -> GetInt(e, h, key)
    [] op = "GetUint64" -> GetUint64(e, h, key)
    [] op = "GetFloat64" -> GetFloat64(e, h, key)
    [] op = "GetDuration" -> GetDuration(e, h, key)
    [] op = "GetBool" -> GetBool(e, h, key)
    [] op = "GetURL" -> GetURL(e, h, key)

TypedGetters ==
  {"GetInt", "GetUint64", "GetFloat64", "GetDuration", "GetBool", "GetURL"}

\* envvar.GetInt(key), GetUint64(key), GetFloat64(key), GetDuration(key),
\* GetBool(key), GetURL(key)
TypedGet ==
  /\ Running
  /\ \E op \in TypedGetters, key \in EnvKeys(scn) :
       last' = getCall(op, key, typedGetter(op, env, hook, key))
  /\ UNCHANGED <<env, dst, scn, hook, lazyVars, loadVars>>

NextTyped == Setenv \/ Unsetenv \/ TypedGet \/ Bind

SpecTyped == InitTyped /\ [][NextTyped]_vars

-----------------------------------------------------------------------------
(* The program of a Bind that runs while another goroutine sets and unsets *)
(* variables.  The binder goes through the loop of bindWithOptions field   *)
(* by field; in lookupPrefixed the read of the prefixed key (prefixed) and *)
(* the read of the plain key (plain) are two calls of os.LookupEnv, and    *)
(* the rest of the iteration (rest) reads the environment again when it    *)
(* expands the text.  thr["b"] is the binder: i is the field it is at, lk  *)
(* what lookupPrefixed returned, errs and steps what it has collected, old *)
(* the destination when the call started, and hist the environments that   *)
(* have existed since the call started.                                    *)

RaceScenarios == {[name |-> "Race", a |-> 0, b |-> 0]}

binder(pc, prefix, i, lk, errs, steps, old, hist) ==
  [pc |-> pc, prefix |-> prefix, i |-> i, lk |-> lk, errs |-> errs,
   steps |-> steps, old |-> old, hist |-> hist]

noLookup == [val |-> <<>>, ok |-> FALSE]

InitRace ==
  /\ scn \in RaceScenarios
  /\ env = [k \in {} |-> <<>>]
  /\ dst = ZeroStruct(StructType(scn))
  /\ last = call("none", "", <<>>, "nil", <<>>, <<>>, dst)
  /\ hook = "nil"
  /\ lazy = NoAccessors
  /\ thr = [t \in {"b"} |->
              binder("idle", <<>>, 0, noLookup, <<>>, <<>>, dst, {})]
  /\ fs = NoFiles
  /\ loader = NotLoaded

\* The environments the running call has existed in.
histWith(e) ==
  IF thr["b"].pc = "idle" THEN thr["b"].hist ELSE thr["b"].hist \cup {e}

\* The other goroutine takes a step: always before and after the call, and
\* during the call while the call has seen fewer than MaxRaceEnvs
\* environments.
otherMayStep ==
  thr["b"].pc = "idle" \/ Cardinality(thr["b"].hist) < MaxRaceEnvs

\* os.Setenv(key, value) in the other goroutine
OtherSetenv ==
  /\ otherMayStep
  /\ \E key \in EnvKeys(scn) :
       \E value \in KeyTexts(scn, key) :
         /\ env' = [k \in DOMAIN env \cup {key} |->
                      IF k = key THEN value ELSE env[k]]
         /\ thr' = [thr EXCEPT !["b"].hist = histWith(env')]
  /\ UNCHANGED <<dst, last, scn, hook, lazy, loadVars>>

\* os.Unsetenv(key) in the other goroutine
OtherUnsetenv ==
  /\ otherMayStep
  /\ \E key \in DOMAIN env :
       /\ env' = [k \in DOMAIN env \ {key} |-> env[k]]
       /\ thr' = [thr EXCEPT !["b"].hist = histWith(env')]
  /\ UNCHANGED <<dst, last, scn, hook, lazy, loadVars>>

\* The index of the first field from i on that is exported and carries an
\* env tag, or Len(rt) + 1.
nextBindable(rt, i) ==
  IF \E j \in i..Len(rt) : rt[j].PkgPath = "" /\ TagLookup(rt[j], "env")
  THEN CHOOSE j \in i..Len(rt) :
         /\ rt[j].PkgPath = "" /\ TagLookup(rt[j], "env")
         /\ \A m \in i..(j - 1) :
              ~(rt[m].PkgPath = "" /\ TagLookup(rt[m], "env"))
  ELSE Len(rt) + 1

\* Where lookupPrefixed starts: if prefix != ""
lookupStart(prefix) == IF prefix # <<>> THEN "prefixed" ELSE "plain"

\* The binder has gone through the fields before i: it goes on with field
\* i, or returns.
raceGoOn(b, d, i) ==
  IF i <= Len(StructType(scn))
  THEN /\ thr' = [thr EXCEPT !["b"] =
                    [b EXCEPT !.pc = lookupStart(b.prefix), !.i = i]]
       /\ dst' = d
       /\ UNCHANGED last
  ELSE /\ thr' = [thr EXCEPT !["b"] = [b EXCEPT !.pc = "idle", !.i = i]]
       /\ dst' = d
       /\ last' = call("Bind", "pointer to struct", b.prefix,
                       bindReturn(b.errs), b.errs, b.steps, b.old)

\* BindWithPrefix(&c, prefix) is called.
RaceBindStart ==
  /\ thr["b"].pc = "idle"
  /\ last.op = "none"
  /\ \E prefix \in Prefixes(scn) :
       raceGoOn(binder("idle", prefix, 0, noLookup, <<>>, <<>>, dst, {env}),
                dst, nextBindable(StructType(scn), 1))
  /\ UNCHANGED <<env, scn, hook, lazy, loadVars>>

\* if v, ok := os.LookupEnv(prefix + name); ok { return v, true }
RaceLookupPrefixed ==
  /\ thr["b"].pc = "prefixed"
  /\ LET b == thr["b"]
         name == parseEnvTag(StructType(scn)[b.i].Tag.env).name
         lk == LookupEnv(env, b.prefix \o name)
     IN thr' = [thr EXCEPT !["b"].pc = IF lk.ok THEN "rest" ELSE "plain",
                           !["b"].lk = lk]
  /\ UNCHANGED <<env, dst, last, scn, hook, lazy, loadVars>>

\* return os.LookupEnv(name)
RaceLookupPlain ==
  /\ thr["b"].pc = "plain"
  /\ LET b == thr["b"]
         name == parseEnvTag(StructType(scn)[b.i].Tag.env).name
     IN thr' = [thr EXCEPT !["b"].pc = "rest",
                           !["b"].lk = LookupEnv(env, name)]
  /\ UNCHANGED <<env, dst, last, scn, hook, lazy, loadVars>>

\* The iteration after lookupPrefixed has returned, and the step to the
\* next field or the return of the call.
RaceBindRest ==
  /\ thr["b"].pc = "rest"
  /\ LET b == thr["b"]
         rt == StructType(scn)
         f == rt[b.i]
     IN \E o \in bindResolved(env, f, dst[f.Name], b.lk) :
          raceGoOn([b EXCEPT !.errs = appendErrs(b.errs, o.errs),
                             !.steps = Append(b.steps, o.step)],
                   [dst EXCEPT ![f.Name] = o.val],
                   nextBindable(rt, b.i + 1))
  /\ UNCHANGED <<env, scn, hook, lazy, loadVars>>

NextRace ==
  \/ OtherSetenv
  \/ OtherUnsetenv
  \/ RaceBindStart
  \/ RaceLookupPrefixed
  \/ RaceLookupPlain
  \/ RaceBindRest

SpecRace == InitRace /\ [][NextRace]_vars

-----------------------------------------------------------------------------
(* The program of the lazy accessors: two accessors for the same key,      *)
(* called by two goroutines while the test sets and unsets the key.        *)
(* A goroutine goes through the steps of the closure: the fast path of     *)
(* once.Do (fast), doSlow (lock, slow), the resolution (run), the          *)
(* deferred done.Store(1) (store) and m.Unlock() (unlock), and the         *)
(* return of o.val (ret).  A panic of the resolution is recovered by the   *)
(* caller once the deferred calls have run.  got holds the value the last  *)
(* call of the goroutine returned, and is empty during a call and after a  *)
(* call that ended in a panic; panicking stays set after such a call.      *)

LazyScenarios ==
  {[name |-> n, a |-> 0, b |-> 0] : n \in {"LazyString", "LazyInt"}}

Accessors == {"a1", "a2"}
Goroutines == {"g1", "g2"}

goroutine(pc, a, calls, slow, panicking, got) ==
  [pc |-> pc, a |-> a, calls |-> calls, slow |-> slow,
   panicking |-> panicking, got |-> got]

InitLazy ==
  /\ scn \in LazyScenarios
  /\ env = [k \in {} |-> <<>>]
  /\ dst = ZeroStruct(StructType(scn))
  /\ last = call("none", "", <<>>, "nil", <<>>, <<>>, dst)
  /\ hook = "nil"
  /\ lazy = [a \in Accessors |-> onceVal(scn.name, NKEY)]
  /\ thr = [t \in Goroutines |->
              goroutine("idle", "a1", 0, FALSE, FALSE, {})]
  /\ fs = NoFiles
  /\ loader = NotLoaded

\* The goroutine calls an accessor.
CallLazy(t) ==
  /\ thr[t].pc = "idle"
  /\ thr[t].calls < MaxCalls
  /\ \E a \in Accessors :
       thr' = [thr EXCEPT ![t] = goroutine("fast", a, thr[t].calls + 1,
                                           FALSE, FALSE, {})]
  /\ UNCHANGED <<env, dst, last, scn, hook, lazy, loadVars>>

\* if o.done.Load() == 0 { o.doSlow(f) }
OnceFast(t) ==
  /\ thr[t].pc = "fast"
  /\ thr' = [thr EXCEPT ![t].pc = IF lazy[thr[t].a].done THEN "ret"
                                  ELSE "lock"]
  /\ UNCHANGED <<env, dst, last, scn, hook, lazy, loadVars>>

\* o.m.Lock()
OnceLock(t) ==
  /\ thr[t].pc = "lock"
  /\ canLock(lazy[thr[t].a].m)
  /\ lazy' = [lazy EXCEPT ![thr[t].a].m = t]
  /\ thr' = [thr EXCEPT ![t].pc = "slow", ![t].slow = TRUE]
  /\ UNCHANGED <<env, dst, last, scn, hook, loadVars>>

\* if o.done.Load() == 0 { defer o.done.Store(1); f() }
OnceSlow(t) ==
  /\ thr[t].pc = "slow"
  /\ thr' = [thr EXCEPT ![t].pc = IF lazy[thr[t].a].done THEN "unlock"
                                  ELSE "run"]
  /\ UNCHANGED <<env, dst, last, scn, hook, lazy, loadVars>>

\* func() { o.val = getters.MustGet(key) }
OnceRun(t) ==
  /\ thr[t].pc = "run"
  /\ LET o == lazy[thr[t].a]
         r == resolve(o.kind, env, hook, o.key)
     IN /\ lazy' = [lazy EXCEPT ![thr[t].a].runs = o.runs + 1,
                                ![thr[t].a].panicked =
                                   o.panicked \/ r.ret = "panic",
                                ![thr[t].a].val =
                                   IF r.ret = "nil" THEN r.val ELSE o.val]
        /\ thr' = [thr EXCEPT ![t].pc = IF r.ret = "hang" THEN "hung"
                                        ELSE "store",
                              ![t].panicking = (r.ret = "panic")]
  /\ UNCHANGED <<env, dst, last, scn, hook, loadVars>>

\* done is stored only when f returned.
doneAfter_unlessPanic(panicking) == ~panicking

\* defer o.done.Store(1): the deferred call runs when f panics, too
doneAfter(panicking) == TRUE

\* the deferred o.done.Store(1)
OnceStore(t) ==
  /\ thr[t].pc = "store"
  /\ lazy' = [lazy EXCEPT ![thr[t].a].done =
                            lazy[thr[t].a].done \/ doneAfter(thr[t].panicking)]
  /\ thr' = [thr EXCEPT ![t].pc = "unlock"]
  /\ UNCHANGED <<env, dst, last, scn, hook, loadVars>>

\* the deferred o.m.Unlock(); a panic of the resolution goes on to the
\* caller, which recovers it
OnceUnlock(t) ==
  /\ thr[t].pc = "unlock"
  /\ lazy' = [lazy EXCEPT ![thr[t].a].m = "free"]
  /\ thr' = [thr EXCEPT ![t].pc = IF thr[t].panicking THEN "idle" ELSE "ret"]
  /\ UNCHANGED <<env, dst, last, scn, hook, loadVars>>

\* return o.val
LazyReturn(t) ==
  /\ thr[t].pc = "ret"
  /\ LET o == lazy[thr[t].a]
         v == returned(o.val, resolve(o.kind, env, hook, o.key).val)
     IN /\ lazy' = [lazy EXCEPT ![thr[t].a].rets = o.rets \cup {v}]
        /\ thr' = [thr EXCEPT ![t].pc = "idle", ![t].got = {v}]
  /\ UNCHANGED <<env, dst, last, scn, hook, loadVars>>

NextLazy ==
  \/ Setenv
  \/ Unsetenv
  \/ \E t \in Goroutines :
       \/ CallLazy(t)
       \/ OnceFast(t)
       \/ OnceLock(t)
       \/ OnceSlow(t)
       \/ OnceRun(t)
       \/ OnceStore(t)
       \/ OnceUnlock(t)
       \/ LazyReturn(t)

SpecLazy == InitLazy /\ [][NextLazy]_vars

-----------------------------------------------------------------------------
(* The program of the loader: a process that finds some env files on its   *)
(* disk, sets and unsets KV1 and KV2, reads them, and calls LoadOnce and   *)
(* MustLoadEnvVars with several path lists.  The guard of LoadOnce is a    *)
(* sync.Once: concurrent calls run one after the other, so a call is one   *)
(* step.                                                                   *)

LoadScenarios == {[name |-> "Loader", a |-> 0, b |-> 0]}

file(lines) == [dir |-> FALSE, lines |-> lines]
directory == [dir |-> TRUE, lines |-> <<>>]

\* "# comment\nKV1=aaa\n\nKV2=bbb\n": the file of TestReadFile with a
\* blank line
withComments ==
  file(<<<<"#", " ", "c">>, KV1 \o <<"=", "a">>, <<>>,
         <<" ">> \o KV2 \o <<" ", "=", " ", "b", " ">>>>)

\* KV1=c
oneKey == file(<<KV1 \o <<"=", "c">>>>)

\* A line without '=' after a well-formed line
badLine == file(<<KV1 \o <<"=", "a">>, <<"o", "o", "p", "s">>,
                  KV2 \o <<"=", "b">>>>)

\* A line with an empty key
emptyKey == file(<<<<"=", "v">>, KV2 \o <<"=", "b">>>>)

\* What the process can find under a path that exists.
FileChoices(path) ==
  CASE path = ".env" -> {badLine}
    [] path = "/env/.env" -> {oneKey}
    [] path = "local" -> {directory, withComments, emptyKey}

Paths == {".env", "/env/.env", "local"}

\* The disks of the process: any of the paths may be missing.
FileSystems ==
  {f \in UNION {[ps -> UNION {FileChoices(q) : q \in Paths}] :
                  ps \in SUBSET Paths} :
     \A p \in DOMAIN f : f[p] \in FileChoices(p)}

\* The path lists LoadOnce is called with; the empty list stands for nil.
PathLists ==
  {<<>>, <<"local">>, <<"local", ".env">>, <<"/env/.env", "local">>}

InitLoad ==
  /\ scn \in LoadScenarios
  /\ env = [k \in {} |-> <<>>]
  /\ dst = ZeroStruct(StructType(scn))
  /\ last = call("none", "", <<>>, "nil", <<>>, <<>>, dst)
  /\ hook = "nil"
  /\ lazy = NoAccessors
  /\ thr = NoThreads
  /\ fs \in FileSystems
  /\ loader = NotLoaded

\* val is the environment before the call.
loadCall(op, paths, out) ==
  /\ env' = out.env
  /\ loader' = out.loader
  /\ last' = [call(op, paths, <<>>, out.ret, <<>>, <<>>, dst)
                EXCEPT !.seen = out.seen, !.val = env]
  /\ UNCHANGED <<dst, scn, hook, lazyVars, fs>>

\* loaders.LoadOnce(paths)
LoadOnceCall ==
  /\ Running
  /\ \E paths \in PathLists :
       \E out \in LoadOnce(env, hook, loader, fs, paths) :
         loadCall("LoadOnce", paths, out)

\* MustLoadEnvVars(paths): panics with the error of LoadOnce
MustLoadEnvVars ==
  /\ Running
  /\ \E paths \in PathLists :
       \E out \in LoadOnce(env, hook, loader, fs, paths) :
         loadCall("MustLoadEnvVars", paths,
                  [out EXCEPT !.ret = IF out.ret = "nil" THEN "nil"
                                      ELSE "panic"])

NextLoad ==
  Setenv \/ Unsetenv \/ GetKey \/ LoadOnceCall \/ MustLoadEnvVars

SpecLoad == InitLoad /\ [][NextLoad]_vars

-----------------------------------------------------------------------------
(* The program of the hook registry: goroutines that call Get, LoadOnce    *)
(* and SetHook, step by step through hookMu.  A registered hook is "h",    *)
(* whose callbacks return, or "hset", whose callbacks call SetHook.  In    *)
(* thr[t], op is the call the goroutine is in and pc its position: rlock   *)
(* (before hookMu.RLock), check (before if hook != nil), callback (in      *)
(* OnGet or OnLoad), runlock (before the deferred RUnlock), wlock (before  *)
(* hookMu.Lock), wwait (in Lock, waiting for the readers to leave), set    *)
(* (holding the write lock), once (before loadOnceGuard.Do) and oncedone   *)
(* (before the deferred done.Store).  rl tells whether the goroutine holds *)
(* the read lock, cb is the hook whose callback it runs, h the hook of its *)
(* SetHook call and seen the callbacks it has run.                         *)

hookCaller(pc, op, h, rl, cb, ok, seen) ==
  [pc |-> pc, op |-> op, h |-> h, rl |-> rl, cb |-> cb, ok |-> ok,
   seen |-> seen]

idleCaller == hookCaller("idle", "none", "nil", FALSE, "nil", FALSE, <<>>)

Hooks == {"nil", "h", "hset"}

InitHook ==
  /\ scn \in LoadScenarios
  /\ env = [k \in {} |-> <<>>]
  /\ dst = ZeroStruct(StructType(scn))
  /\ last = call("none", "", <<>>, "nil", <<>>, <<>>, dst)
  /\ hook = "nil"
  /\ lazy = NoAccessors
  /\ thr = [t \in Goroutines |-> idleCaller]
  /\ fs = [p \in {"/env/.env"} |-> oneKey]
  /\ loader = NotLoaded

\* The callback returns only after the read lock was given up.
holdsReadLock_untilCallback(r) == r.rl /\ r.pc \in {"check", "runlock"}

\* hookMu.RLock(); defer hookMu.RUnlock()
holdsReadLock(r) == r.rl

\* The state of hookMu: its readers, the goroutine that holds it for
\* writing, and the goroutines inside Lock.
readers == {t \in Goroutines : holdsReadLock(thr[t])}
writers == {t \in Goroutines : thr[t].pc \in {"wwait", "set"}}

\* The goroutines inside loadOnceGuard.Do
inOnce ==
  {t \in Goroutines :
     thr[t].op = "LoadOnce" /\ thr[t].pc \notin {"idle", "once"}}

\* The call of goroutine t returns.
hookReturn(t) ==
  /\ thr' = [thr EXCEPT ![t] = idleCaller]
  /\ last' = [call(thr[t].op, "", <<>>, "nil", <<>>, <<>>, dst)
                EXCEPT !.seen = thr[t].seen]

\* GetRaw(key) up to the call of CallOnGet
HookGetRaw(t) ==
  /\ thr[t].pc = "idle"
  /\ \E key \in EnvKeys(scn) :
       thr' = [thr EXCEPT ![t] =
                 hookCaller("rlock", "Get", "nil", FALSE, "nil",
                            LookupEnv(env, key).ok, <<>>)]
  /\ UNCHANGED <<env, dst, last, scn, hook, lazy, loadVars>>

\* LoadOnce(nil): loadOnceGuard.Do, the fast path
HookLoadOnce(t) ==
  /\ thr[t].pc = "idle"
  /\ IF loader.done
     THEN last' = call("LoadOnce", "", <<>>, loader.err, <<>>, <<>>, dst)
          /\ UNCHANGED thr
     ELSE thr' = [thr EXCEPT ![t] =
                    hookCaller("once", "LoadOnce", "nil", FALSE, "nil",
                               FALSE, <<>>)]
          /\ UNCHANGED last
  /\ UNCHANGED <<env, dst, scn, hook, lazy, loadVars>>

\* doSlow: the function passed to loadOnceGuard.Do up to the call of
\* CallOnLoad, once the goroutine has the mutex of the guard
HookOnceDo(t) ==
  /\ thr[t].pc = "once"
  /\ inOnce = {}
  /\ IF loader.done
     THEN hookReturn(t) /\ UNCHANGED <<env, loader>>
     ELSE \E out \in LoadOnce(env, "nil", loader, fs, <<>>) :
            /\ env' = out.env
            /\ loader' = [out.loader EXCEPT !.done = FALSE]
            /\ thr' = [thr EXCEPT ![t].pc =
                         IF out.loader.applied # loader.applied
                         THEN "rlock" ELSE "oncedone"]
            /\ UNCHANGED last
  /\ UNCHANGED <<dst, scn, hook, lazy, fs>>

\* the deferred done.Store(1) and Unlock of the guard; return loadErr
HookOnceDone(t) ==
  /\ thr[t].pc = "oncedone"
  /\ loader' = [loader EXCEPT !.done = TRUE]
  /\ hookReturn(t)
  /\ UNCHANGED <<env, dst, scn, hook, lazy, fs>>

\* hookMu.RLock(): blocks while a goroutine is inside Lock
HookRLock(t) ==
  /\ thr[t].pc = "rlock"
  /\ writers = {}
  /\ thr' = [thr EXCEPT ![t].pc = "check", ![t].rl = TRUE]
  /\ UNCHANGED <<env, dst, last, scn, hook, lazy, loadVars>>

\* if hook != nil { hook.OnGet(key, ok, err, d) }
HookCall(t) ==
  /\ thr[t].pc = "check"
  /\ thr' = [thr EXCEPT
              ![t].pc = IF hook # "nil" THEN "callback" ELSE "runlock",
              ![t].cb = hook,
              ![t].seen = IF thr[t].op = "Get"
                          THEN CallOnGet(hook, KV1, thr[t].ok)
                          ELSE CallOnLoad(hook, "/env/.env", 1)]
  /\ UNCHANGED <<env, dst, last, scn, hook, lazy, loadVars>>

\* The callback of "h" returns.
CallbackReturn(t) ==
  /\ thr[t].pc = "callback"
  /\ thr[t].cb = "h"
  /\ thr' = [thr EXCEPT ![t].pc = "runlock"]
  /\ UNCHANGED <<env, dst, last, scn, hook, lazy, loadVars>>

\* The callback of "hset" calls SetHook(h).
CallbackSetHook(t) ==
  /\ thr[t].pc = "callback"
  /\ thr[t].cb = "hset"
  /\ \E h \in Hooks : thr' = [thr EXCEPT ![t].pc = "wlock", ![t].h = h]
  /\ UNCHANGED <<env, dst, last, scn, hook, lazy, loadVars>>

\* the deferred hookMu.RUnlock()
HookRUnlock(t) ==
  /\ thr[t].pc = "runlock"
  /\ IF thr[t].op = "Get"
     THEN hookReturn(t)
     ELSE thr' = [thr EXCEPT ![t].pc = "oncedone", ![t].rl = FALSE]
          /\ UNCHANGED last
  /\ UNCHANGED <<env, dst, scn, hook, lazy, loadVars>>

\* SetHook(h) is called.
HookSetHook(t) ==
  /\ thr[t].pc = "idle"
  /\ \E h \in Hooks :
       thr' = [thr EXCEPT ![t] =
                 hookCaller("wlock", "SetHook", h, FALSE, "nil", FALSE, <<>>)]
  /\ UNCHANGED <<env, dst, last, scn, hook, lazy, loadVars>>

\* hookMu.Lock(): one goroutine at a time gets inside, and new readers
\* are kept out from then on
HookLock(t) ==
  /\ thr[t].pc = "wlock"
  /\ writers = {}
  /\ thr' = [thr EXCEPT ![t].pc = "wwait"]
  /\ UNCHANGED <<env, dst, last, scn, hook, lazy, loadVars>>

\* hookMu.Lock() returns when the readers have left.
HookLockAcquire(t) ==
  /\ thr[t].pc = "wwait"
  /\ readers = {}
  /\ thr' = [thr EXCEPT ![t].pc = "set"]
  /\ UNCHANGED <<env, dst, last, scn, hook, lazy, loadVars>>

\* hook = h, the deferred hookMu.Unlock(), and the return of SetHook: to
\* its caller, or into the callback that called it
HookStore(t) ==
  /\ thr[t].pc = "set"
  /\ hook' = thr[t].h
  /\ IF thr[t].op = "SetHook"
     THEN hookReturn(t)
     ELSE thr' = [thr EXCEPT ![t].pc = "runlock"] /\ UNCHANGED last
  /\ UNCHANGED <<env, dst, scn, lazy, loadVars>>

NextHook ==
  \E t \in Goroutines :
    \/ HookGetRaw(t)
    \/ HookLoadOnce(t)
    \/ HookOnceDo(t)
    \/ HookOnceDone(t)
    \/ HookRLock(t)
    \/ HookCall(t)
    \/ CallbackReturn(t)
    \/ CallbackSetHook(t)
    \/ HookRUnlock(t)
    \/ HookSetHook(t)
    \/ HookLock(t)
    \/ HookLockAcquire(t)
    \/ HookStore(t)

SpecHook == InitHook /\ [][NextHook]_vars

-----------------------------------------------------------------------------
(* The program of the dump: a process that sets and unsets public and      *)
(* secret-like variables and dumps its environment.                        *)

DumpScenarios == {[name |-> "Dump", a |-> 0, b |-> 0]}

InitDump ==
  /\ scn \in DumpScenarios
  /\ env = [k \in {} |-> <<>>]
  /\ dst = ZeroStruct(StructType(scn))
  /\ last = call("none", "", <<>>, "nil", <<>>, <<>>, dst)
  /\ hook = "nil"
  /\ lazy = NoAccessors
  /\ thr = NoThreads
  /\ fs = NoFiles
  /\ loader = NotLoaded

\* envvar.DumpRedacted(): val is the map returned
DumpCall ==
  /\ Running
  /\ last' = [call("DumpRedacted", "", <<>>, "nil", <<>>, <<>>, dst)
                EXCEPT !.val = DumpRedacted(env)]
  /\ UNCHANGED <<env, dst, scn, hook, lazyVars, loadVars>>

NextDump == Setenv \/ Unsetenv \/ DumpCall

SpecDump == InitDump /\ [][NextDump]_vars

-----------------------------------------------------------------------------
(* The program of the conversions: a test that sets and unsets the key of  *)
(* a struct with fields of the kinds setField distinguishes and binds it.  *)

ConvScenarios == {[name |-> n, a |-> 0, b |-> 0] : n \in {"URL", "Steps"}}

InitConv ==
  /\ scn \in ConvScenarios
  /\ env = [k \in {} |-> <<>>]
  /\ dst = ZeroStruct(StructType(scn))
  /\ last = call("none", "", <<>>, "nil", <<>>, <<>>, dst)
  /\ hook = "nil"
  /\ lazy = NoAccessors
  /\ thr = NoThreads
  /\ fs = NoFiles
  /\ loader = NotLoaded

NextConv == Setenv \/ Unsetenv \/ Bind

SpecConv == InitConv /\ [][NextConv]_vars

-----------------------------------------------------------------------------
(* The program of the list splitter: SplitAndTrim applied to the text of   *)
(* the tests and to every short text over a letter, a blank and the        *)
(* characters of the separators, once in a run.  arg is the text, prefix   *)
(* the separator and val the list returned.                                *)

SplitScenarios == {[name |-> "Split", a |-> 0, b |-> 0]}

\* " a , , b, c " and "a,b,c"
spacedABC ==
  <<" ", "a", " ", ",", " ", ",", " ", "b", ",", " ", "c", " ">>
plainABC == <<"a", ",", "b", ",", "c">>

SplitTexts ==
  UNION {[1..n -> {"a", " ", ",", ":"}] : n \in 0..MaxSplitLen}
    \cup {spacedABC, plainABC}

Separators == {<<",">>, <<"|">>, <<":", ":">>}

InitSplit ==
  /\ scn \in SplitScenarios
  /\ env = [k \in {} |-> <<>>]
  /\ dst = ZeroStruct(StructType(scn))
  /\ last = call("none", "", <<>>, "nil", <<>>, <<>>, dst)
  /\ hook = "nil"
  /\ lazy = NoAccessors
  /\ thr = NoThreads
  /\ fs = NoFiles
  /\ loader = NotLoaded

\* parts := SplitAndTrim(s, sep)
SplitCall ==
  /\ last.op = "none"
  /\ \E s \in SplitTexts, sep \in Separators :
       last' = [call("SplitAndTrim", s, sep, "nil", <<>>, <<>>, dst)
                  EXCEPT !.val = SplitAndTrim(s, sep)]
  /\ UNCHANGED <<env, dst, scn, hook, lazyVars, loadVars>>

NextSplit == SplitCall

SpecSplit == InitSplit /\ [][NextSplit]_vars

-----------------------------------------------------------------------------
(* What the properties below speak about: the Bind call that has just      *)
(* returned, its struct type, and what each of its fields should have      *)
(* resolved to in the environment of the call (Bind leaves env as it is,   *)
(* and every other call replaces last).                                    *)

rtNow == StructType(scn)

\* A Bind call on a pointer to the struct has returned.
Bound == last.op = "Bind" /\ last.arg = "pointer to struct"
           /\ last.ret \in {"nil", "MultiError"}

isTagged(f) == f.PkgPath = "" /\ "env" \in DOMAIN f.Tag

\* The exported fields carrying an env tag, in declaration order.
TaggedFields == SelectSeq(rtNow, isTagged)

keyOf(f) == parseEnvTag(f.Tag.env).name
isRequired(f) == parseEnvTag(f.Tag.env).required
defOf(f) == IF "envdef" \in DOMAIN f.Tag THEN f.Tag.envdef ELSE <<>>
sepOf(f) ==
  IF "envsep" \in DOMAIN f.Tag /\ f.Tag.envsep # <<>> THEN f.Tag.envsep
  ELSE <<",">>

prefixedSet(f) ==
  last.prefix # <<>> /\ (last.prefix \o keyOf(f)) \in DOMAIN env

\* The key of f, or its prefixed key, is set.
present(f) == prefixedSet(f) \/ keyOf(f) \in DOMAIN env

\* The text the field takes its value from.
textOf(f) ==
  IF prefixedSet(f) THEN env[last.prefix \o keyOf(f)]
  ELSE IF keyOf(f) \in DOMAIN env THEN env[keyOf(f)]
  ELSE defOf(f)

hasText(f) == present(f) \/ defOf(f) # <<>>

converted(f) == setField(f.Type, Expand(env, textOf(f)).s, sepOf(f))

rejected(f) ==
  /\ "validate" \in DOMAIN f.Tag
  /\ f.Tag.validate # <<>>
  /\ ValidateField(converted(f).val, f.Type, f.Tag.validate, sepOf(f))
       # {pass}

\* The field is one Bind has to report.
fieldFails(f) ==
  IF ~hasText(f) THEN isRequired(f)
  ELSE ~converted(f).ok \/ rejected(f)

failureKind(f) ==
  IF ~hasText(f) THEN "missing"
  ELSE IF ~converted(f).ok THEN "convert" ELSE "validate"

failedOutcomes == {"missing", "converr", "valerr"}

stepFields == [k \in 1..Len(last.steps) |-> last.steps[k].field]
taggedNames == [k \in 1..Len(TaggedFields) |-> TaggedFields[k].Name]
errKeys == [k \in 1..Len(last.errs) |-> last.errs[k].key]
errKinds == [k \in 1..Len(last.errs) |-> last.errs[k].kind]

failing == SelectSeq(TaggedFields, fieldFails)

\* The entries of the returned error that name key.
entriesFor(key) == SelectSeq(last.errs, LAMBDA e : e.key = key)

-----------------------------------------------------------------------------
(* C1: Bind visits every exported field that carries an env tag, in        *)
(* declaration order, and a missing-required, conversion or validation     *)
(* failure of one field never keeps a later tagged field from being        *)
(* resolved, converted, assigned and validated: a call that returned has   *)
(* visited all of them, a call stopped by a non-terminating expansion has  *)
(* visited all of them up to the field it is stuck in, and every field     *)
(* after a failed one holds the value its own text converts to.            *)
C1_FailuresDoNotShortCircuit ==
  (last.op = "Bind" /\ last.arg = "pointer to struct") =>
    /\ last.ret # "hang" => stepFields = taggedNames
    /\ last.ret = "hang" =>
         /\ Len(last.steps) <= Len(TaggedFields)
         /\ stepFields = SubSeq(taggedNames, 1, Len(last.steps))
         /\ \A k \in 1..Len(last.steps) :
              (last.steps[k].outcome = "hang") <=> (k = Len(last.steps))
    /\ \A k \in 1..Len(last.steps) :
         LET f == TaggedFields[k]
         IN /\ last.steps[k].outcome \in {"ok", "valerr"} =>
                 converted(f).ok /\ dst[f.Name] = converted(f).val
            /\ last.steps[k].outcome \in {"ok", "valerr", "converr"} =>
                 last.steps[k].raw = textOf(f)

\* A failed field is followed by a field that was bound.
C1_Witness ==
  /\ Bound
  /\ \E j, k \in 1..Len(last.steps) :
       /\ j < k
       /\ last.steps[j].outcome \in failedOutcomes
       /\ last.steps[k].outcome = "ok"
       /\ dst[last.steps[k].field] # last.old[last.steps[k].field]

(* C2: the aggregated error holds exactly one entry for each tagged field  *)
(* that failed and none for a field that did not, in declaration order,    *)
(* each entry naming the env key of its field; a missing-required, an      *)
(* out-of-range and a oneof failure together give exactly three entries.   *)
C2_OneEntryPerFailedField ==
  Bound =>
    /\ errKeys = [k \in 1..Len(failing) |-> keyOf(failing[k])]
    /\ errKinds = [k \in 1..Len(failing) |-> failureKind(failing[k])]
    /\ (/\ scn.name = "Agg"
        /\ HOST \notin DOMAIN env
        /\ PORT \in DOMAIN env /\ env[PORT] = <<"4">>
        /\ MODE \in DOMAIN env /\ env[MODE] = <<"2">>)
         => /\ Len(last.errs) = 3
            /\ errKeys = <<PORT, MODE, HOST>>
            /\ errKinds = <<"validate", "validate", "missing">>

\* Port out of range, Mode not allowed and Host missing in one call.
C2_Witness ==
  /\ Bound
  /\ scn.name = "Agg"
  /\ errKinds = <<"validate", "validate", "missing">>
  /\ Len(last.errs) = 3

(* C3: Bind returns nil iff no tagged field fails, and the MultiError      *)
(* whenever at least one fails, also when exactly one does; the plain      *)
(* error is returned only for a destination that is not a non-nil pointer  *)
(* to a struct, and then no field is examined or modified.                 *)
C3_NilOrMultiError ==
  last.op = "Bind" =>
    /\ last.arg # "pointer to struct" =>
         /\ last.ret = "error"
         /\ dst = last.old
         /\ last.steps = <<>>
         /\ last.errs = <<>>
    /\ last.arg = "pointer to struct" => last.ret # "error"
    /\ Bound =>
         /\ (last.ret = "nil") <=> (failing = <<>>)
         /\ (last.ret = "MultiError") <=> (failing # <<>>)
         /\ (last.ret = "nil") <=> (last.errs = <<>>)

\* Exactly one field failed and the MultiError was returned.
C3_Witness ==
  /\ Bound
  /\ Len(failing) = 1
  /\ Len(last.errs) = 1
  /\ last.ret = "MultiError"

(* C4: a required field without envdef whose key and prefixed key are      *)
(* both absent gets a Missing failure of its own, keeps its value, and     *)
(* the walk goes on to all the other fields.                               *)
C4_MissingRequired ==
  Bound =>
    \A k \in 1..Len(TaggedFields) :
      LET f == TaggedFields[k]
      IN (isRequired(f) /\ defOf(f) = <<>> /\ ~present(f)) =>
           /\ entriesFor(keyOf(f)) = <<missingErr(keyOf(f))>>
           /\ dst[f.Name] = last.old[f.Name]
           /\ stepFields = taggedNames
           /\ \A j \in 1..Len(TaggedFields) :
                (j # k /\ ~fieldFails(TaggedFields[j])
                   /\ hasText(TaggedFields[j])) =>
                  dst[TaggedFields[j].Name] = converted(TaggedFields[j]).val

\* With a prefix, Host is missing under both keys and Port is bound.
C4_Witness ==
  /\ Bound
  /\ scn.name = "Prefix"
  /\ last.prefix = MYAPP
  /\ HOST \notin DOMAIN env /\ (MYAPP \o HOST) \notin DOMAIN env
  /\ entriesFor(HOST) = <<missingErr(HOST)>>
  /\ last.old.Host # <<>> /\ dst.Host = last.old.Host
  /\ dst.Port # last.old.Port

(* C5: with a non-empty prefix P a field with key K is resolved from P+K   *)
(* whenever P+K is set, also when K is set too, and from K only when P+K   *)
(* is not set; with prefix MYAPP_, MYAPP_PORT=1 and PORT=2 the field gets  *)
(* 1, with only PORT=2 it gets 2.  With an empty prefix only K is          *)
(* consulted.                                                              *)
C5_PrefixedKeyWins ==
  Bound =>
    /\ \A k \in 1..Len(last.steps) :
         LET f == TaggedFields[k]
             pk == last.prefix \o keyOf(f)
             st == last.steps[k]
         IN /\ (last.prefix # <<>> /\ pk \in DOMAIN env) =>
                 st.src = "env" /\ st.raw = env[pk]
            /\ ((last.prefix = <<>> \/ pk \notin DOMAIN env)
                  /\ keyOf(f) \in DOMAIN env) =>
                 st.src = "env" /\ st.raw = env[keyOf(f)]
    /\ (scn.name = "Prefix" /\ PORT \in DOMAIN env /\ env[PORT] = <<"2">>) =>
         /\ (/\ last.prefix = MYAPP
             /\ (MYAPP \o PORT) \in DOMAIN env
             /\ env[MYAPP \o PORT] = <<"1">>) => dst.Port = 1
         /\ (last.prefix = MYAPP /\ (MYAPP \o PORT) \notin DOMAIN env) =>
              dst.Port = 2
         /\ last.prefix = <<>> => dst.Port = 2

\* MYAPP_PORT=1 and PORT=2 are both set and the field got 1.
C5_Witness ==
  /\ Bound
  /\ scn.name = "Prefix"
  /\ last.prefix = MYAPP
  /\ PORT \in DOMAIN env /\ env[PORT] = <<"2">>
  /\ (MYAPP \o PORT) \in DOMAIN env /\ env[MYAPP \o PORT] = <<"1">>
  /\ dst.Port = 1
  /\ last.old.Port = 2

(* C6: the envdef text is used for a field iff its key and its prefixed    *)
(* key are both absent; a key that is set, also to the empty text, takes   *)
(* precedence over the default, and a field bound from its default never   *)
(* gives a Missing failure, also when it is required.                      *)
C6_DefaultOnlyWhenAbsent ==
  Bound =>
    \A k \in 1..Len(last.steps) :
      LET f == TaggedFields[k]
          st == last.steps[k]
      IN defOf(f) # <<>> =>
           /\ (st.src = "default") <=> ~present(f)
           /\ st.src = "default" => st.raw = defOf(f)
           /\ present(f) => st.src = "env" /\ st.raw = textOf(f)
           /\ st.outcome # "missing"
           /\ \A j \in 1..Len(last.errs) :
                last.errs[j].key = keyOf(f) => last.errs[j].kind # "missing"
           /\ (~present(f) /\ ~fieldFails(f)) =>
                dst[f.Name] = setField(f.Type, Expand(env, defOf(f)).s,
                                       sepOf(f)).val

\* LIM is set to the empty text, which is converted instead of the
\* default 5, while Mode is bound from its default.
C6_Witness ==
  /\ Bound
  /\ scn.name = "Default"
  /\ LIM \in DOMAIN env /\ env[LIM] = <<>>
  /\ entriesFor(LIM) # <<>>
  /\ MODE \notin DOMAIN env
  /\ dst.Mode = <<"d", "e", "v">>
  /\ last.old.Mode # dst.Mode

(* C7: a field that is not required, has no default and whose key and      *)
(* prefixed key are absent keeps the value it had before the call and      *)
(* gets no failure, in every call of a sequence of Bind calls: a value     *)
(* assigned by an earlier Bind survives a Bind made after the variable     *)
(* was removed.                                                            *)
C7_AbsentOptionalUntouched ==
  Bound =>
    \A k \in 1..Len(TaggedFields) :
      LET f == TaggedFields[k]
      IN (~isRequired(f) /\ defOf(f) = <<>> /\ ~present(f)) =>
           /\ dst[f.Name] = last.old[f.Name]
           /\ entriesFor(keyOf(f)) = <<>>

\* Port was bound by an earlier call and its variables are gone.
C7_Witness ==
  /\ Bound
  /\ scn.name = "Prefix"
  /\ PORT \notin DOMAIN env
  /\ (MYAPP \o PORT) \notin DOMAIN env
  /\ last.prefix = MYAPP
  /\ dst.Port = 2

(* C8: when the conversion of a field succeeds and its validate rule       *)
(* rejects the value, Bind records a failure for the field and does not    *)
(* roll the assignment back: the field holds the rejected value.           *)
C8_RejectedValueStays ==
  Bound =>
    \A k \in 1..Len(TaggedFields) :
      LET f == TaggedFields[k]
      IN (hasText(f) /\ converted(f).ok /\ rejected(f)) =>
           /\ dst[f.Name] = converted(f).val
           /\ \E j \in 1..Len(last.errs) :
                last.errs[j].key = keyOf(f) /\ last.errs[j].kind = "validate"
           /\ last.ret = "MultiError"

\* Port was 2, PORT=4 is above max=3, and Port is 4 after the call.
C8_Witness ==
  /\ Bound
  /\ scn.name = "Agg"
  /\ PORT \in DOMAIN env /\ env[PORT] = <<"4">>
  /\ last.old.Port = 2
  /\ dst.Port = 4
  /\ last.ret = "MultiError"

\* The fields of the struct that are bound from key.
fieldsOf(key) == SelectSeq(TaggedFields, LAMBDA f : keyOf(f) = key)

validateEntries == SelectSeq(last.errs, LAMBDA e : e.kind = "validate")

minEntry(key, a) ==
  [key |-> key, kind |-> "validate", msg |-> "must be >= %d",
   arg |-> FormatInt(a)]

maxEntry(key, b) ==
  [key |-> key, kind |-> "validate", msg |-> "must be <= %d",
   arg |-> FormatInt(b)]

\* N is set to the decimal text of v.
nIs(v) == NKEY \in DOMAIN env /\ env[NKEY] = FormatInt(v)

timeoutIs(t) == TIMEOUT \in DOMAIN env /\ env[TIMEOUT] = t

(* C9: for an integer field with validate "min=A,max=B" a converted value  *)
(* v with A <= v <= B passes, and v = A-1 or v = B+1 each gives exactly    *)
(* one validation failure for the field, naming a bound that v violates    *)
(* (min=A for A-1 and max=B for B+1 when A <= B); for a duration field     *)
(* the bounds are duration literals, so "min=1s,max=10s" accepts "5s" and  *)
(* rejects "500ms" and "11s"; and whatever the rules, a field gives at     *)
(* most one validation failure per Bind.                                   *)
C9_MinMaxBounds ==
  Bound =>
    /\ scn.name = "Range" =>
         \A v \in (-2)..(MaxRuleBound + 1) :
           nIs(v) =>
             /\ dst.N = v
             /\ (scn.a <= v /\ v <= scn.b) =>
                  last.ret = "nil" /\ last.errs = <<>>
             /\ (v = scn.a - 1 \/ v = scn.b + 1) =>
                  /\ Len(last.errs) = 1
                  /\ \/ v < scn.a /\ last.errs[1] = minEntry(NKEY, scn.a)
                     \/ v > scn.b /\ last.errs[1] = maxEntry(NKEY, scn.b)
             /\ (scn.a <= scn.b /\ v = scn.a - 1) =>
                  last.errs = <<minEntry(NKEY, scn.a)>>
             /\ (scn.a <= scn.b /\ v = scn.b + 1) =>
                  last.errs = <<maxEntry(NKEY, scn.b)>>
    /\ scn.name = "Duration" =>
         /\ timeoutIs(<<"5", "s">>) =>
              last.ret = "nil" /\ dst.Timeout = 5000
         /\ timeoutIs(<<"5", "0", "0", "m", "s">>) =>
              /\ dst.Timeout = 500
              /\ last.errs = <<[key |-> TIMEOUT, kind |-> "validate",
                                msg |-> "duration < %s",
                                arg |-> <<"1", "s">>]>>
         /\ timeoutIs(<<"1", "1", "s">>) =>
              /\ dst.Timeout = 11000
              /\ last.errs = <<[key |-> TIMEOUT, kind |-> "validate",
                                msg |-> "duration > %s",
                                arg |-> <<"1", "0", "s">>]>>
         /\ (timeoutIs(<<"1", "s">>) \/ timeoutIs(<<"1", "0", "s">>)) =>
              last.ret = "nil"
    /\ \A k \in 1..Len(TaggedFields) :
         Len(SelectSeq(validateEntries,
                       LAMBDA e : e.key = keyOf(TaggedFields[k])))
           <= Len(fieldsOf(keyOf(TaggedFields[k])))

\* min=A,max=B with A <= B, N = A-1, and the one failure names min.
C9_Witness ==
  /\ Bound
  /\ scn.name = "Range"
  /\ scn.a <= scn.b
  /\ nIs(scn.a - 1)
  /\ dst.N = scn.a - 1
  /\ last.errs = <<minEntry(NKEY, scn.a)>>

allowedABC == {<<"a">>, <<"b">>, <<"c">>}

\* The elements of the list that text gives when split on sep and trimmed.
elemsOf(text, sep) == SplitAndTrim(text, sep)

firstNotAllowed(elems) ==
  elems[CHOOSE i \in 1..Len(elems) :
          /\ elems[i] \notin allowedABC
          /\ \A j \in 1..(i - 1) : elems[j] \in allowedABC]

allAllowed(elems) == \A i \in 1..Len(elems) : elems[i] \in allowedABC

\* The entry expected for a list of elements under oneof=a|b|c.
listEntries(elems) ==
  IF allAllowed(elems) THEN <<>>
  ELSE <<[key |-> TAGS, kind |-> "validate", msg |-> "value %q not in %v",
          arg |-> firstNotAllowed(elems)]>>

(* C10: the allowed set of a oneof rule is split on '|' whatever the       *)
(* envsep of the field.  A string field passes iff its value equals one    *)
(* alternative exactly; a []string field passes iff every element, after   *)
(* splitting on envsep and trimming, is allowed, and otherwise the         *)
(* failure names the first element that is not: "a, c" passes             *)
(* oneof=a|b|c and "a,x" fails naming "x".                                 *)
C10_OneOf ==
  Bound =>
    /\ (scn.name = "OneOf" /\ MODE \in DOMAIN env) =>
         /\ dst.Mode = env[MODE]
         /\ (last.ret = "nil") <=> (env[MODE] \in allowedABC)
         /\ env[MODE] \notin allowedABC =>
              /\ Len(last.errs) = 1
              /\ last.errs[1].key = MODE
              /\ last.errs[1].msg = "must be one of %v"
    /\ (scn.name = "OneOfList" /\ TAGS \in DOMAIN env) =>
         /\ dst.Tags.elems = elemsOf(env[TAGS], <<",">>)
         /\ dst.Pipes.elems = elemsOf(env[TAGS], <<"|">>)
         /\ last.errs = listEntries(dst.Tags.elems)
                          \o listEntries(dst.Pipes.elems)
         /\ env[TAGS] = <<"a", ",", " ", "c">> =>
              /\ dst.Tags.elems = <<<<"a">>, <<"c">>>>
              /\ entriesFor(TAGS) = listEntries(dst.Pipes.elems)
              /\ Len(last.errs) = 1
         /\ env[TAGS] = <<"a", ",", "x">> =>
              last.errs[1].arg = <<"x">>
         /\ env[TAGS] = <<"a", "|", " ", "c">> =>
              /\ dst.Pipes.elems = <<<<"a">>, <<"c">>>>
              /\ last.errs = listEntries(dst.Tags.elems)
              /\ Len(last.errs) = 1

\* "a,x" on the comma-separated list fails naming "x".
C10_Witness ==
  /\ Bound
  /\ scn.name = "OneOfList"
  /\ TAGS \in DOMAIN env /\ env[TAGS] = <<"a", ",", "x">>
  /\ dst.Tags.elems = <<<<"a">>, <<"x">>>>
  /\ Len(last.errs) = 2
  /\ last.errs[1].arg = <<"x">>

-----------------------------------------------------------------------------
\* The kinds oneof is defined for: string and []string.
oneofKind(t) ==
  t.Kind = "string" \/ (t.Kind = "slice" /\ t.Elem.Kind = "string")

\* The kinds min and max are defined for: integers, unsigned integers,
\* durations (an int64) and strings.
minMaxKind(t) == t.Kind \in {"int", "uint", "string"}

\* The validate tag of f holds a recognized rule its kind does not support.
ruleOnUnsupportedKind(f) ==
  /\ "validate" \in DOMAIN f.Tag
  /\ LET rules == parseRules(f.Tag.validate)
     IN \/ kOneOf \in DOMAIN rules /\ ~oneofKind(f.Type)
        \/ (kMin \in DOMAIN rules \/ kMax \in DOMAIN rules)
             /\ ~minMaxKind(f.Type)

(* C11: a recognized rule applied to a field kind it does not support is   *)
(* a validation failure of that field whatever its value: every field      *)
(* whose text converted and whose tag holds oneof on a kind other than     *)
(* string or []string, or min or max on a kind other than integer,         *)
(* unsigned integer, duration or string, ends with a validation failure.   *)
C11_RuleOnUnsupportedKindFails ==
  Bound =>
    \A k \in 1..Len(last.steps) :
      (/\ last.steps[k].outcome \in {"ok", "valerr"}
       /\ ruleOnUnsupportedKind(TaggedFields[k]))
        => last.steps[k].outcome = "valerr"

-----------------------------------------------------------------------------
(* What the properties of expansion speak about. *)

\* The text with each ${NAME} and ${NAME:-default} segment, from left to
\* right, replaced by NAME's value when NAME is set, else by the default
\* when one is given, else by the empty text.
RECURSIVE substituted(_, _)
substituted(e, s) ==
  LET i == Index(s, <<"$", "{">>)
      r == IF i = 0 THEN 0 ELSE Index(From(s, i), <<"}">>)
      j == r + i - 1
      c == Cut(SubSeq(s, i + 2, j - 1), <<":", "-">>)
  IN IF i = 0 \/ r = 0 THEN s
     ELSE SubSeq(s, 1, i - 1)
            \o (IF c.before \in DOMAIN e THEN e[c.before]
                ELSE IF c.found THEN c.after ELSE <<>>)
            \o substituted(e, From(s, j + 1))

hasDollar(s) == \E k \in 1..Len(s) : s[k] = "$"

\* A Get or MustGet of a variable that is set has returned.
gotSet == last.op \in {"Get", "MustGet"} /\ last.arg \in DOMAIN env

isSetTo(key, text) == key \in DOMAIN env /\ env[key] = text

(* C12: expansion replaces each ${NAME} by NAME's value when NAME is set   *)
(* and by the empty text when it is not, and each ${NAME:-default} by      *)
(* NAME's value when set and by the default when not; with EV_A=1 the      *)
(* text ${EV_A} gives 1, with EV_X unset ${EV_X} gives the empty text and  *)
(* ${EV_X:-def} gives def.  Get and MustGet return the value of their      *)
(* variable with this expansion applied.  (The values and defaults put in  *)
(* are plain texts: what is put in holds no '$'.)                          *)
C12_Expansion ==
  /\ last.op = "Expand" =>
       /\ ~hasDollar(substituted(env, last.arg)) =>
            last.ret = "nil" /\ last.val = substituted(env, last.arg)
       /\ (last.arg = Ref(EV_A) /\ isSetTo(EV_A, <<"1">>)) =>
            last.val = <<"1">>
       /\ (last.arg = Ref(EV_X) /\ EV_X \notin DOMAIN env) =>
            last.ret = "nil" /\ last.val = <<>>
       /\ (last.arg = RefOr(EV_X, <<"d", "e", "f">>)
             /\ EV_X \notin DOMAIN env) =>
            last.ret = "nil" /\ last.val = <<"d", "e", "f">>
  /\ (gotSet /\ ~hasDollar(substituted(env, env[last.arg]))) =>
       /\ last.ret = "nil"
       /\ last.ok
       /\ last.val = substituted(env, env[last.arg])
  /\ (last.op = "Get" /\ last.arg \notin DOMAIN env) =>
       last.ret = "nil" /\ ~last.ok /\ last.val = <<>>
  /\ (last.op = "MustGet" /\ last.arg \notin DOMAIN env) =>
       last.ret = "panic"

\* Get returns a text in which a set variable with an unused default and
\* an unset variable without default were replaced.
C12_Witness ==
  /\ last.op = "Get"
  /\ last.arg = EV_B
  /\ isSetTo(EV_A, <<"1">>)
  /\ isSetTo(EV_B, <<"x">> \o RefOr(EV_A, <<"d">>) \o <<"y">> \o Ref(EV_X)
                     \o <<"z">>)
  /\ last.ok
  /\ last.val = <<"x", "1", "y", "z">>

\* The text holds no "${".
noBrace(s) == Index(s, <<"$", "{">>) = 0

\* Every '$' of the text is its last character or is followed by a
\* character that starts neither a name nor a braced segment.
onlyBareDollars(s) ==
  \A k \in 1..Len(s) :
    s[k] = "$" =>
      \/ k = Len(s)
      \/ ~(s[k + 1] = "{" \/ isAlphaNum(s[k + 1])
             \/ isShellSpecialVar(s[k + 1]))

\* What Expand, Get and Bind into the string field Raw made of a text for
\* which keeps(text) holds is the text itself.
returnedVerbatim(keeps(_)) ==
  /\ (last.op = "Expand" /\ keeps(last.arg)) =>
       last.ret = "nil" /\ last.val = last.arg
  /\ (gotSet /\ keeps(env[last.arg])) =>
       last.ret = "nil" /\ last.ok /\ last.val = env[last.arg]
  /\ (Bound /\ EV_B \in DOMAIN env /\ keeps(env[EV_B])) =>
       dst.Raw = env[EV_B] /\ last.errs = <<>>

(* C13, as claimed: expansion rewrites only ${NAME} and ${NAME:-default}   *)
(* segments, a '$' that no '{' follows stays as it is, and so a text       *)
(* holding no "${" is returned verbatim by Expand, by Get and into a       *)
(* bound string field.                                                     *)
C13_OnlyBracedSegmentsRewritten == returnedVerbatim(noBrace)

(* C13, amended: expansion rewrites ${NAME} and ${NAME:-default} segments  *)
(* and, in the pass of os.ExpandEnv that follows, $NAME references; a '$'  *)
(* that is the last character or that no name and no '{' follows stays as  *)
(* it is, and a text whose '$' are all of that kind, so also a text        *)
(* holding no '$', is returned verbatim by Expand, by Get and into a       *)
(* bound string field.                                                     *)
C13_BareDollarsVerbatim == returnedVerbatim(onlyBareDollars)

\* A text holding a '$' that no name follows was bound into Raw as it is.
C13_Witness ==
  /\ Bound
  /\ isSetTo(EV_B, <<"a", "$", " ", "b">>)
  /\ last.old.Raw # <<"a", "$", " ", "b">>
  /\ dst.Raw = <<"a", "$", " ", "b">>

\* The fields of the struct that Bind must leave alone: those that are
\* unexported or carry no env tag.
frameFields ==
  {rtNow[i].Name : i \in {k \in 1..Len(rtNow) : ~isTagged(rtNow[k])}}

(* C20: a Bind or BindWithPrefix call changes nothing but exported,        *)
(* env-tagged fields of the destination: the environment is the same       *)
(* before and after the call, untagged and unexported fields keep their    *)
(* values, and the binder invokes no OnGet or OnLoad callback, also when   *)
(* a hook is installed, while Get and MustGet invoke OnGet once with the   *)
(* key and whether it is set.                                              *)
C20_BindFrame ==
  /\ [][last'.op = "Bind" =>
          /\ env' = env
          /\ hook' = hook
          /\ \A n \in frameFields : dst'[n] = dst[n]]_vars
  /\ [](last.op = "Bind" => last.seen = <<>>)
  /\ []((last.op \in {"Get", "MustGet"} /\ last.ret # "hang") =>
          last.seen = IF hook = "nil" THEN <<>>
                      ELSE <<[cb |-> "OnGet", key |-> last.arg,
                              ok |-> last.arg \in DOMAIN env]>>)

\* With a hook installed and the keys of the tagged and of the unexported
\* field set, Bind has assigned the tagged field only.
C20_Witness ==
  /\ Bound
  /\ hook = "h"
  /\ EV_A \in DOMAIN env /\ EV_B \in DOMAIN env
  /\ dst.Raw # last.old.Raw
  /\ dst.Note = <<"n">> /\ dst.hidden = <<"h">>
  /\ last.seen = <<>>

-----------------------------------------------------------------------------
\* The goroutines that are inside a call of accessor a.
callersOf(a) == {t \in Goroutines : thr[t].a = a /\ thr[t].pc # "idle"}

(* C14: for one lazy accessor called by several first-time callers at      *)
(* once, the resolution and conversion runs exactly once: never twice, and *)
(* once before any caller returns; no caller is about to return before     *)
(* that one computation has finished and its result is stored, and all     *)
(* the values the accessor has returned are the same value, the stored     *)
(* one.                                                                    *)
C14_ResolvedOnce ==
  \A a \in Accessors :
    /\ lazy[a].runs <= 1
    /\ lazy[a].done => lazy[a].runs = 1
    /\ \A t \in callersOf(a) :
         thr[t].pc = "ret" => lazy[a].done /\ lazy[a].runs = 1
    /\ lazy[a].rets # {} => lazy[a].done /\ lazy[a].runs = 1
    /\ lazy[a].rets \subseteq {lazy[a].val}
    /\ Cardinality({t \in callersOf(a) :
                      thr[t].pc \in {"slow", "run", "store", "unlock",
                                     "hung"}}) <= 1

\* Both goroutines were first-time callers of the same accessor, both went
\* through doSlow, one ran the resolution, and both are about to return.
C14_Witness ==
  /\ scn.name = "LazyString"
  /\ thr["g1"].a = thr["g2"].a
  /\ \A t \in Goroutines :
       thr[t].pc = "ret" /\ thr[t].slow /\ thr[t].calls = 1
  /\ lazy[thr["g1"].a].runs = 1
  /\ lazy[thr["g1"].a].val = <<"1">>

(* C15: once a lazy accessor has returned a value from a successful first  *)
(* invocation, every later invocation returns that same value whatever     *)
(* happens to the key in between (set, changed, unset): the stored value   *)
(* of a consumed accessor never changes and the set of values it has       *)
(* returned never grows.  Two accessors for the same key cache             *)
(* independently: a step of one leaves the other as it is.                 *)
C15_CachedForever ==
  /\ [][\A a \in Accessors :
          /\ lazy[a].done => lazy'[a].done /\ lazy'[a].val = lazy[a].val
          /\ lazy[a].rets # {} => lazy'[a].rets = lazy[a].rets]_vars
  /\ [][\A a, b \in Accessors :
          (a # b /\ lazy'[a] # lazy[a]) => lazy'[b] = lazy[b]]_vars
  /\ [](\A a \in Accessors : lazy[a].rets \subseteq {lazy[a].val})

\* The first accessor returned "1" twice to the same goroutine, the second
\* accessor, first called after the key was changed, returned "2", and the
\* key is unset by now.
C15_Witness ==
  /\ scn.name = "LazyString"
  /\ NKEY \notin DOMAIN env
  /\ thr["g1"] = goroutine("idle", "a1", 2, FALSE, FALSE, {<<"1">>})
  /\ lazy["a1"].rets = {<<"1">>}
  /\ lazy["a2"].rets = {<<"2">>}

-----------------------------------------------------------------------------
(* What the properties of the loader speak about. *)

loadOps == {"LoadOnce", "MustLoadEnvVars"}

\* The paths a call with the list ps looks at.
pathsTried(ps) == IF ps = <<>> THEN <<".env", "/env/.env">> ELSE ps

isFile(p) == p \in DOMAIN fs /\ ~fs[p].dir

\* p is the first path of the list ps that exists and is no directory.
firstExisting(ps, p) ==
  \E i \in 1..Len(pathsTried(ps)) :
    /\ pathsTried(ps)[i] = p
    /\ isFile(p)
    /\ \A j \in 1..(i - 1) : ~isFile(pathsTried(ps)[j])

noFileIn(ps) == \A i \in 1..Len(pathsTried(ps)) : ~isFile(pathsTried(ps)[i])

\* The KEY=VALUE pairs of the files of the program, as one reads them.
pairsOf(f) ==
  CASE f = withComments -> {<<KV1, <<"a">>>>, <<KV2, <<"b">>>>}
    [] f = oneKey -> {<<KV1, <<"c">>>>}
    [] f = badLine -> {<<KV1, <<"a">>>>, <<KV2, <<"b">>>>}
    [] f = emptyKey -> {<<<<>>, <<"v">>>>, <<KV2, <<"b">>>>}

\* Every line is blank, a comment or KEY=VALUE with a key.
wellFormed(f) == f \in {withComments, oneKey}

\* A line that is neither blank nor a comment holds no '='.
hasBadLine(f) ==
  \E i \in 1..Len(f.lines) :
    LET line == TrimSpace(f.lines[i])
    IN /\ line # <<>>
       /\ line[1] # "#"
       /\ \A k \in 1..Len(line) : line[k] # "="

\* The step is a call of LoadOnce or MustLoadEnvVars.
loadStep == last'.op \in loadOps /\ loader'.done

\* The environment after the step differs from the one before at most in
\* the keys of the pairs.
onlyKeysOf(pairs) ==
  \A k \in (DOMAIN env \cup DOMAIN env') \ {pr[1] : pr \in pairs} :
    /\ k \in DOMAIN env <=> k \in DOMAIN env'
    /\ k \in DOMAIN env => env'[k] = env[k]

(* C16: across any sequence of LoadOnce and MustLoadEnvVars calls at most  *)
(* one env file is ever read and applied.  The first call reads only the   *)
(* first path of its list that exists and is no directory (of .env and     *)
(* /env/.env when the list is empty) and sets only variables of that       *)
(* file; when there is none it returns without error and sets nothing.     *)
(* Every later call, whatever its paths, reads no file and leaves the      *)
(* environment as it is.                                                   *)
C16_LoadsAtMostOnce ==
  /\ [](loader.reads <= 1 /\ Len(loader.applied) <= 1)
  /\ [][(loadStep /\ ~loader.done) =>
          /\ noFileIn(last'.arg) =>
               /\ env' = env
               /\ last'.ret = "nil"
               /\ loader'.reads = 0
          /\ \A p \in Paths :
               firstExisting(last'.arg, p) =>
                 /\ loader'.reads = 1
                 /\ loader'.applied \in {<<>>, <<p>>}
                 /\ loader'.applied = <<>> <=> loader'.err # "nil"
                 /\ onlyKeysOf(pairsOf(fs[p]))]_vars
  /\ [][(loadStep /\ loader.done) =>
          /\ env' = env
          /\ loader' = loader]_vars

\* After local was loaded, a call naming /env/.env, which exists, first
\* has returned and KV1 still has the value of local.
C16_Witness ==
  /\ last.op \in loadOps
  /\ last.arg = <<"/env/.env", "local">>
  /\ isFile("/env/.env") /\ isFile("local")
  /\ loader.applied = <<"local">>
  /\ isSetTo(KV1, <<"a">>)
  /\ last.ret = "nil"

\* Every pair is set in the environment e and the getter returns its
\* value.
pairsSet(e, pairs) ==
  \A pr \in pairs :
    /\ pr[1] \in DOMAIN e
    /\ e[pr[1]] = pr[2]
    /\ Get(e, hook, pr[1]).ok
    /\ Get(e, hook, pr[1]).val = pr[2]

\* A call MustLoadEnvVars(paths) has returned without panic, and the first
\* existing path of its list is the well-formed file f.
loadedWithoutPanic(f) ==
  /\ last.op = "MustLoadEnvVars"
  /\ last.ret = "nil"
  /\ wellFormed(f)
  /\ \E p \in Paths : firstExisting(last.arg, p) /\ fs[p] = f

(* C17, as claimed: after any call MustLoadEnvVars(paths) that returns     *)
(* without panic and whose first existing path is a well-formed env file,  *)
(* every KEY=VALUE pair of that file is set in the environment, whatever   *)
(* the key held before, and the getters return the values of the file.     *)
C17_EveryCallLoads ==
  \A f \in {withComments, oneKey} :
    loadedWithoutPanic(f) => pairsSet(env, pairsOf(f))

(* C17, amended: after the first call of LoadOnce or MustLoadEnvVars in    *)
(* the process returns without error, where the first existing path of     *)
(* its list is a well-formed env file, every KEY=VALUE pair of that file   *)
(* is set in the environment, whatever the key held before, and the        *)
(* getters return the values of the file; a later call sets nothing.       *)
C17_FirstCallLoads ==
  /\ [][(loadStep /\ ~loader.done /\ last'.ret = "nil") =>
          \A p \in Paths :
            (firstExisting(last'.arg, p) /\ wellFormed(fs[p])) =>
              /\ pairsSet(env', pairsOf(fs[p]))
              /\ loader'.applied = <<p>>]_vars
  /\ [][(loadStep /\ loader.done) => env' = env]_vars

\* The first call has loaded local over a KV1 that was set to x: KV1 now
\* holds the value of the file.
C17_Witness ==
  /\ last.op = "MustLoadEnvVars"
  /\ last.ret = "nil"
  /\ last.arg = <<"local", ".env">>
  /\ "local" \in DOMAIN fs /\ fs["local"] = withComments
  /\ loader.applied = <<"local">>
  /\ KV1 \in DOMAIN last.val /\ last.val[KV1] = <<"x">>
  /\ env = (KV1 :> <<"a">>) @@ (KV2 :> <<"b">>)

(* C18: reading an env file ignores blank lines and lines starting with    *)
(* '#' and fails, returning no map, when any other line holds no '='.      *)
(* The load is all or nothing: a LoadOnce that hits such an error sets     *)
(* none of the variables of the file, also not those of the well-formed    *)
(* lines before the bad one, so the environment is unchanged; a file       *)
(* without such a line is read to the pairs of its other lines.            *)
C18_AllOrNothing ==
  /\ [][(loadStep /\ ~loader.done) =>
          \A p \in Paths :
            firstExisting(last'.arg, p) =>
              /\ hasBadLine(fs[p]) <=> loader'.err = "invalid line"
              /\ hasBadLine(fs[p]) =>
                   /\ env' = env
                   /\ last'.ret \in {"invalid line", "panic"}
                   /\ ReadFile(fs[p].lines).m = [x \in {} |-> <<>>]
              /\ ~hasBadLine(fs[p]) =>
                   /\ ReadFile(fs[p].lines).ok
                   /\ {<<k, ReadFile(fs[p].lines).m[k]>> :
                         k \in DOMAIN ReadFile(fs[p].lines).m}
                        = pairsOf(fs[p])]_vars
  /\ [][(loadStep /\ last'.ret \in {"invalid line", "panic"}) =>
          env' = env]_vars

\* The first call found the file with the bad second line: the error is
\* stored, and KV1 of its first line is not set.
C18_Witness ==
  /\ last.op = "LoadOnce"
  /\ last.arg = <<"local", ".env">>
  /\ ~isFile("local")
  /\ isFile(".env") /\ fs[".env"] = badLine
  /\ last.ret = "invalid line"
  /\ loader.err = "invalid line"
  /\ loader.applied = <<>>
  /\ env = last.val
  /\ KV1 \notin DOMAIN env

-----------------------------------------------------------------------------
\* The keys of the program whose upper-cased form contains SECRET, TOKEN
\* or PASSWORD or ends with _KEY.
secretKeys == {MY_SECRET, API_KEY, jwt_token, PASSWORD}

\* The environments that differ from env at most in the values of secret
\* keys.
secretVariants ==
  {e \in [DOMAIN env -> EnvTexts(scn) \cup {<<"t">>}] :
     \A k \in DOMAIN env \ secretKeys : e[k] = env[k]}

-----------------------------------------------------------------------------
\* The texts of the URL struct that parse as a URL with a scheme, and the
\* URL each of them parses to.
urlTexts ==
  {[text |-> <<"h", "t", "t", "p", ":", "/", "/", "h">>,
    url |-> [scheme |-> <<"h", "t", "t", "p">>, rest |-> <<"/", "/", "h">>]],
   [text |-> <<"H", ":", "x">>,
    url |-> [scheme |-> <<"h">>, rest |-> <<"x">>]]}

urlGuidance == "use *url.URL in struct, not url.URL"

\* The failures the call returned for key whose message is msg.
entriesWith(key, msg) ==
  SelectSeq(last.errs, LAMBDA e : e.key = key /\ e.msg = msg)

(* C21: when the key of a by-value url.URL field is set, to a valid URL or  *)
(* not, Bind reports a failure for it that tells to use *url.URL and       *)
(* leaves the field as it was; a *url.URL field with the same key is       *)
(* allocated and assigned the parsed URL iff the text parses as a URL      *)
(* with a non-empty scheme, and otherwise gets an invalid-url failure and  *)
(* stays as it was.                                                        *)
C21_URLFields ==
  (Bound /\ scn.name = "URL" /\ URL_DIRECT \in DOMAIN env) =>
    /\ Len(entriesWith(URL_DIRECT, urlGuidance)) = 1
    /\ dst.U = last.old.U
    /\ dst.U = [scheme |-> <<>>, rest |-> <<>>]
    /\ IF \E u \in urlTexts : u.text = env[URL_DIRECT]
       THEN /\ \E u \in urlTexts :
                 /\ u.text = env[URL_DIRECT]
                 /\ dst.P = [nil |-> FALSE, elem |-> u.url]
            /\ Len(entriesFor(URL_DIRECT)) = 1
       ELSE /\ dst.P = last.old.P
            /\ Len(entriesWith(URL_DIRECT, "invalid url: %s")) = 1
            /\ Len(entriesFor(URL_DIRECT)) = 2

\* URL_DIRECT=http://h: the by-value field failed and is empty, the pointer
\* field holds the URL, and the call returned the one failure.
C21_Witness ==
  /\ Bound /\ scn.name = "URL"
  /\ URL_DIRECT \in DOMAIN env
  /\ env[URL_DIRECT] = <<"h", "t", "t", "p", ":", "/", "/", "h">>
  /\ last.ret = "MultiError"
  /\ ~dst.P.nil /\ dst.P.elem.scheme = <<"h", "t", "t", "p">>
  /\ dst.U.scheme = <<>>

-----------------------------------------------------------------------------
\* strings.Join(list, sep)
RECURSIVE Join(_, _)
Join(list, sep) ==
  IF list = <<>> THEN <<>>
  ELSE IF Len(list) = 1 THEN list[1]
  ELSE list[1] \o sep \o Join(Tail(list), sep)

Splitted == last.op = "SplitAndTrim"

\* The segments of the text split on the separator, and the positions of
\* those that are not blank.
segments == Split(last.arg, last.prefix)
kept == {k \in 1..Len(segments) : TrimSpace(segments[k]) # <<>>}

\* What SplitAndTrim has to return: the trimmed non-blank segments in the
\* order of the text.
returnsTrimmedSegments ==
  /\ Len(last.val) = Cardinality(kept)
  /\ \A k \in kept :
       last.val[Cardinality({j \in kept : j <= k})]
         = TrimSpace(segments[k])
  /\ \A j \in 1..Len(last.val) :
       /\ last.val[j] # <<>>
       /\ last.val[j][1] \notin WhiteSpace
       /\ last.val[j][Len(last.val[j])] \notin WhiteSpace
  /\ last.arg = <<>> => last.val = <<>>
  /\ last.arg \in {spacedABC, plainABC} /\ last.prefix = <<",">>
       => last.val = <<<<"a">>, <<"b">>, <<"c">>>>

resplitIsSame ==
  SplitAndTrim(Join(last.val, last.prefix), last.prefix) = last.val

(* C22 as stated: for every text and separator SplitAndTrim returns, in    *)
(* order, the non-empty trimmed segments of the text, the empty text gives *)
(* the empty list, " a , , b, c " and "a,b,c" give [a,b,c], and splitting  *)
(* the list joined with the separator gives the same list again.           *)
C22_SplitAndTrimIdempotent ==
  Splitted => returnsTrimmedSegments /\ resplitIsSame

(* C22 amended: the same, with the re-split of the joined list returning   *)
(* the same list for a separator of one character.                         *)
C22_SplitAndTrim ==
  Splitted =>
    /\ returnsTrimmedSegments
    /\ Len(last.prefix) = 1 => resplitIsSame

\* " a , , b, c " split on "," gave [a,b,c].
C22_Witness ==
  /\ Splitted
  /\ last.arg = spacedABC /\ last.prefix = <<",">>
  /\ last.val = <<<<"a">>, <<"b">>, <<"c">>>>
  /\ resplitIsSame

-----------------------------------------------------------------------------
\* The field of the struct that is called name.
fieldNamed(name) == rtNow[CHOOSE i \in 1..Len(rtNow) : rtNow[i].Name = name]

hasRule(f) == "validate" \in DOMAIN f.Tag /\ f.Tag.validate # <<>>

\* What the conversion of the expanded text of a step gives.
stepConverted(st) ==
  setField(fieldNamed(st.field).Type, Expand(env, st.raw).s,
           sepOf(fieldNamed(st.field)))

\* The verdicts of the rule of the field on the converted value.
stepVerdicts(st) ==
  ValidateField(stepConverted(st).val, fieldNamed(st.field).Type,
                fieldNamed(st.field).Tag.validate,
                sepOf(fieldNamed(st.field)))

(* C23: every field Bind visited went through resolve, expand, convert,    *)
(* validate in this order: the text it resolved came from the environment  *)
(* when a key was set and from envdef otherwise, that text was expanded    *)
(* before it was converted in both cases, the rule was applied only when   *)
(* the conversion succeeded and to the converted value, and a field that   *)
(* was skipped, missing or failed conversion has no validation failure.    *)
C23_StepOrder ==
  Bound =>
    \A k \in 1..Len(last.steps) :
      LET st == last.steps[k]
          f == fieldNamed(st.field)
      IN /\ st.src = "env" => present(f) /\ st.raw = textOf(f)
         /\ st.src = "default" => ~present(f) /\ st.raw = defOf(f)
         /\ st.src = "none" <=> st.outcome \in {"missing", "absent"}
         /\ st.outcome = "converr" <=>
              (st.src # "none" /\ ~stepConverted(st).ok)
         /\ st.outcome = "converr" => dst[st.field] = last.old[st.field]
         /\ st.outcome \in {"ok", "valerr"} =>
              /\ stepConverted(st).ok
              /\ dst[st.field] = stepConverted(st).val
         /\ st.outcome = "valerr" =>
              hasRule(f) /\ stepVerdicts(st) # {pass}
         /\ st.outcome = "ok" /\ hasRule(f) => pass \in stepVerdicts(st)
         /\ st.outcome # "valerr" =>
              \A j \in 1..Len(last.errs) :
                last.errs[j].key = st.key => last.errs[j].kind # "validate"

\* Port took its value from envdef "${LIM}" with LIM=1: the default was
\* expanded, converted to 1 and rejected by min=2; Mode was missing and
\* got no validation failure.
C23_Witness ==
  /\ Bound /\ scn.name = "Steps"
  /\ DOMAIN env = {LIM} /\ env[LIM] = <<"1">>
  /\ last.steps[1].src = "default" /\ last.steps[1].raw = Ref(LIM)
  /\ last.steps[1].outcome = "valerr" /\ dst.Port = 1
  /\ last.steps[2].outcome = "missing"
  /\ errKinds = <<"validate", "missing">>

-----------------------------------------------------------------------------
expansionOps == {"Get", "Expand", "ExpandMap"}

(* C24: expansion always terminates: every call of ExpandMap, Expand and   *)
(* Get returns, for every map, every text and every environment, also when *)
(* a value of the map refers to its own key or to a cycle of keys and when *)
(* a variable refers to itself or to a cycle of variables.                 *)
C24_ExpansionTerminates ==
  last.op \in expansionOps => last.ret = "nil"

-----------------------------------------------------------------------------
\* The Bind call that ran beside the other goroutine has returned.
RaceBound == last.op = "Bind" /\ thr["b"].pc = "idle"

\* The value and the outcome the iteration of a field gives in the one
\* environment h.
resolutionsIn(h, f) ==
  {[val |-> o.val, outcome |-> o.step.outcome] :
     o \in bindField(h, last.prefix, f, last.old[f.Name])}

\* In every environment of the call the prefixed key or the plain key of
\* the field was set.
alwaysCovered(f) ==
  \A h \in thr["b"].hist :
    (last.prefix \o keyOf(f)) \in DOMAIN h \/ keyOf(f) \in DOMAIN h

(* C25: when another goroutine sets and unsets variables during a Bind     *)
(* call, the value and the outcome of every field are what its resolution  *)
(* gives in one of the environments that existed during the call; in       *)
(* particular a field whose prefixed key or plain key was set at every     *)
(* moment of the call is not reported Missing.                             *)
C25_FieldwiseConsistent ==
  RaceBound =>
    \A k \in 1..Len(last.steps) :
      LET f == fieldNamed(last.steps[k].field)
      IN /\ \E h \in thr["b"].hist :
              [val |-> dst[f.Name], outcome |-> last.steps[k].outcome]
                \in resolutionsIn(h, f)
         /\ alwaysCovered(f) => last.steps[k].outcome # "missing"

-----------------------------------------------------------------------------
\* The field of the "Typed" struct whose type corresponds to a getter.
typedFieldOf(op) ==
  CASE op = "GetInt" -> "I"
    [] op = "GetUint64" -> "U"
    [] op = "GetFloat64" -> "F"
    [] op = "GetDuration" -> "D"
    [] op = "GetBool" -> "B"
    [] op = "GetURL" -> "P"

\* The step of a Bind call for the field named name.
stepFor(steps, name) ==
  steps[CHOOSE k \in 1..Len(steps) : steps[k].field = name]

\* A typed getter has read a set variable and Bind is called next, in the
\* same environment, on the struct that has a field of the getter's type.
getterThenBind ==
  /\ scn.name = "Typed"
  /\ last.op \in TypedGetters
  /\ last.arg \in DOMAIN env
  /\ last'.op = "Bind"
  /\ last'.arg = "pointer to struct"

(* C26: for every text of a variable, a typed getter succeeds with value v *)
(* exactly when binding a field of the corresponding type to the same key  *)
(* succeeds with value v, texts with leading or trailing whitespace        *)
(* included.                                                               *)
C26_GettersMatchBinder ==
  [][getterThenBind =>
       LET name == typedFieldOf(last.op)
           st == stepFor(last'.steps, name)
       IN /\ (last.ret = "nil") <=> (st.outcome = "ok")
          /\ last.ret = "nil" => dst'[name] = last.val]_vars

-----------------------------------------------------------------------------
\* The fields whose conversion failed in the last Bind call.
convFailed ==
  {last.steps[k].field :
     k \in {j \in 1..Len(last.steps) : last.steps[j].outcome = "converr"}}

(* C27: a field whose conversion fails (invalid text, number out of the    *)
(* range of the field's width, malformed JSON or JSON of the wrong type,   *)
(* unsupported type) holds after Bind exactly what it held before the      *)
(* call: neither a partially decoded value nor a freshly allocated pointer *)
(* is stored.                                                              *)
C27_FailedConversionKeepsField ==
  Bound => \A name \in convFailed : dst[name] = last.old[name]

\* After a Bind that set every convertible field, the text ["a",1] fails
\* in every field: the JSON fields fail after "a" was decoded.
C27_Witness ==
  /\ Bound
  /\ scn.name = "Failing"
  /\ NKEY \in DOMAIN env /\ env[NKEY] = jsonA1
  /\ convFailed = {"I8", "U8", "F", "D", "B", "P", "PI", "J", "PJ", "M", "L"}
  /\ last.old.J = [nil |-> FALSE, elems |-> <<<<"a">>>>]
  /\ last.old.PJ = [nil |-> FALSE,
                    elem |-> [nil |-> FALSE, elems |-> <<<<"a">>>>]]
  /\ last.old.PI = [nil |-> FALSE, elem |-> 1]
  /\ last.old.I8 = 1
  /\ dst = last.old

-----------------------------------------------------------------------------
\* The zero value of the type an accessor returns.
zeroOf(a) == IF lazy[a].kind = "LazyInt" THEN 0 ELSE <<>>

\* The goroutines whose latest call is to accessor a.
onAccessor(a) == {t \in Goroutines : thr[t].a = a /\ thr[t].calls > 0}

(* C28: when the first invocation of a lazy accessor panics, the guard is  *)
(* consumed all the same: the function is not executed again, so the       *)
(* environment is not read again, and every later invocation returns the   *)
(* zero value of the type without panicking, whatever the variable holds   *)
(* by then.                                                                *)
C28_PanicConsumesGuard ==
  \A a \in Accessors :
    lazy[a].panicked =>
      /\ lazy[a].runs = 1
      /\ lazy[a].val = zeroOf(a)
      /\ lazy[a].rets \subseteq {zeroOf(a)}
      /\ lazy[a].done \/ \E t \in onAccessor(a) : thr[t].pc = "store"
      /\ Cardinality({t \in onAccessor(a) : thr[t].panicking}) <= 1
      /\ \A t \in onAccessor(a) :
           thr[t].pc = "idle" /\ ~thr[t].panicking =>
             thr[t].got = {zeroOf(a)}

\* The first invocation of a1 panicked while N was not set; N is 1 now,
\* and both goroutines have invoked a1 since and got the zero value.
C28_Witness ==
  /\ lazy["a1"].panicked
  /\ lazy["a1"].runs = 1
  /\ NKEY \in DOMAIN env /\ env[NKEY] = <<"1">>
  /\ \A t \in Goroutines :
       /\ thr[t].a = "a1" /\ thr[t].pc = "idle" /\ thr[t].calls = 2
       /\ ~thr[t].panicking
       /\ thr[t].got = {zeroOf("a1")}

-----------------------------------------------------------------------------
\* What a call returns when loadErr holds err: LoadOnce returns it,
\* MustLoadEnvVars panics with it.
returnsStored(op, ret, err) ==
  ret = IF err = "nil" THEN "nil"
        ELSE IF op = "LoadOnce" THEN err ELSE "panic"

\* The first file of the list ps has a line that cannot be parsed.
firstFileIsBad(ps) ==
  \E p \in DOMAIN fs : firstExisting(ps, p) /\ hasBadLine(fs[p])

(* C29: the first LoadOnce call stores its outcome for good.  When it      *)
(* fails to read its file, every later LoadOnce call returns that error    *)
(* and every later MustLoadEnvVars call panics, without reading a file or  *)
(* changing the environment, whatever paths the later call names; when it  *)
(* succeeds or finds no file, every later call returns nil.                *)
C29_FirstOutcomeIsStored ==
  [][last'.op \in loadOps =>
       /\ returnsStored(last'.op, last'.ret, loader'.err)
       /\ ~loader.done =>
            (loader'.err # "nil" <=> firstFileIsBad(last'.arg))
       /\ loader.done => loader' = loader /\ env' = env]_vars

\* .env holds a bad line and the first call failed on it; a later
\* MustLoadEnvVars names the well-formed /env/.env first, and panics with
\* the stored error, no second file read and no variable set.
C29_Witness ==
  /\ last.op = "MustLoadEnvVars"
  /\ last.ret = "panic"
  /\ last.arg = <<"/env/.env", "local">>
  /\ "/env/.env" \in DOMAIN fs /\ fs["/env/.env"] = oneKey
  /\ loader.err # "nil"
  /\ loader.reads = 1
  /\ loader.applied = <<>>
  /\ env = last.val
  /\ KV1 \notin DOMAIN env

-----------------------------------------------------------------------------
\* Goroutine t is executing a callback of the hook: the callback has been
\* entered and has not returned.
inCallback(t) ==
  thr[t].op \in {"Get", "LoadOnce"} /\ thr[t].pc \in {"callback", "wlock", "wwait", "set"}

\* Goroutine t is in a SetHook call made from a callback.
inNestedSetHook(t) ==
  thr[t].op \in {"Get", "LoadOnce"} /\ thr[t].pc \in {"wlock", "wwait"}

\* The SetHook call of goroutine u returns in the step.
setHookReturns(u) ==
  thr[u].op = "SetHook" /\ thr[u].pc # "idle" /\ thr'[u].pc = "idle"

(* C30: the callbacks of the hook run under the read lock of the registry. *)
(* A SetHook call of another goroutine does not return, and the hook does  *)
(* not change, while a callback is executing; and a callback that calls    *)
(* SetHook never returns: the Get or LoadOnce call it runs in stays        *)
(* blocked in the Lock of that SetHook, holding the read lock.             *)
C30_CallbacksUnderReadLock ==
  [][\A t \in Goroutines :
       /\ inCallback(t) =>
            /\ hook' = hook
            /\ \A u \in Goroutines \ {t} : ~setHookReturns(u)
       /\ inNestedSetHook(t) =>
            /\ inNestedSetHook(t)'
            /\ thr'[t].rl]_vars

\* g1 is in Get: its OnGet callback has called SetHook and waits in Lock
\* for the readers to leave, itself being one; the SetHook call of g2
\* has not got into Lock.
C30_Witness ==
  /\ thr["g1"].op = "Get" /\ thr["g1"].cb = "hset"
  /\ thr["g1"].pc = "wwait" /\ thr["g1"].rl
  /\ thr["g2"].op = "SetHook" /\ thr["g2"].pc = "wlock"
  /\ hook = "hset"

====
